---- MODULE Spec2Model ----
(***************************************************************************)
(* A model of dewey (chadwhitacre/dewey): the Catalog, its crawler and the *)
(* index family (String, Enumeration, Path).                               *)
(*                                                                         *)
(* Python strings are sequences of one-character strings; a BTree mapping  *)
(* is a function with a finite domain; a TreeSet is a set.  An operation   *)
(* that can raise yields a record [st, exc]: the object as the call left   *)
(* it (Python keeps the mutations made before a raise) and the exception's *)
(* name, "none" when the call returned.                                    *)
(***************************************************************************)
EXTENDS Integers, Sequences, FiniteSets, TLC

VARIABLES
    ix,         \* the index object driven directly (String, Enumeration or Path)
    op,         \* the last call made on ix and what it was made on
    nops,       \* number of calls made on ix
    learned,    \* the <<rid, value>> of the last learn of each rid that returned,
                \* dropped when a later learn or forget is called with that rid
    fs,         \* the filesystem: path -> mtime, 0 when the path does not exist
    cat,        \* the Catalog as the crawling thread sees it (inside its transaction)
    db,         \* the Catalog as of the last transaction.commit()
    nextrid,    \* Catalog._v_nextrid: <<>> for None, <<n>> for n
    pc,         \* where the crawl is: "idle", or "walk" inside crawl_once
    todo,       \* the paths os.walk has yet to yield to the add/update loop
    i,          \* the counter i of crawl_once
    last,       \* how the last crawl_once ended: "returned", "raised", or "none"
                \* once the filesystem has changed or the process restarted
    pre,        \* the Catalog as it was when the last crawl_once was called
    issued,     \* a learn or a forget was called on an index in this crawl_once
    alloc,      \* the last rid _generate_rid returned, and what held then
    forgotten,  \* the rids unindexed since the process started
    order,      \* the passes that have touched the catalog in this crawl_once:
                \* "none", "add", "unindex", "add,unindex", or "mixed" once an
                \* add/update has followed an unindex
    coll,       \* the Collection driven directly: constraints, limit, sort, data
    cop,        \* the last call made on coll and how it ended
    crawler,    \* the crawler thread: where it is in Catalog.crawl, and the
                \* exception that ended it
    stop,       \* STOP_CRAWLING: "unmade" before start_crawling, "clear" or "set"
    since,      \* entries processed since the last commit (checkpoint model)
    later       \* the threads that calls of start_crawling after the first started

ixvars == <<ix, op, nops, learned>>
catvars == <<fs, cat, db, nextrid, pc, todo, i, last, pre, issued, alloc, forgotten, order>>
colvars == <<coll, cop>>
thrvars == <<crawler, stop, since, later>>
vars == <<ix, op, nops, learned, fs, cat, db, nextrid, pc, todo, i, last, pre, issued, alloc, forgotten,
          order, coll, cop, crawler, stop, since, later>>

(***************************************************************************)
(* Bounds of the model.                                                    *)
(***************************************************************************)
MaxLen == 2         \* longest string value learned by a String index
MaxIxRid == 2       \* rids 1..MaxIxRid are handed to an index driven directly
MaxOps == 3         \* calls made on an index driven directly
MaxTime == 2        \* mtimes are 1..MaxTime
RidSpace == 3       \* stands for 2**31: rids that fit the integer BTrees are 0..RidSpace-1
MaxTerms == 4       \* the terms of a collection composed through its methods
MaxListTerms == 2   \* the terms of a collection that is limited, sorted and listed
MaxEntries == 42    \* most entries of the directory walked in the checkpoint model
MaxShellTerms == 3  \* the terms of a collection composed through the shell
MaxThreads == 3     \* most crawler threads started, one by each call of start_crawling

\* crawl_once commits when i % 20 == 0.
CommitEvery == 20

(***************************************************************************)
(* Characters and strings.                                                 *)
(***************************************************************************)
\* The characters of the model, in ASCII order ('/' < 'A' < '_' < 'a' ...).
CharOrder == <<"/", "A", "_", "a", "b", "c", "d", "f", "r">>

Ord(c) == CHOOSE n \in 1..Len(CharOrder) : CharOrder[n] = c

\* str.lower() on one character.
LowerChar(c) == IF c = "A" THEN "a" ELSE c

\* str.lower()
Lower(s) == [n \in 1..Len(s) |-> LowerChar(s[n])]

\* Python's ordering of str: lexicographic, a proper prefix first.
RECURSIVE StrLess(_, _)
StrLess(a, b) ==
    IF Len(b) = 0 THEN FALSE
    ELSE IF Len(a) = 0 THEN TRUE
    ELSE IF a[1] # b[1] THEN Ord(a[1]) < Ord(b[1])
    ELSE StrLess(Tail(a), Tail(b))

\* value[:j], value[i:] and value[k:k+j] of String.learn, over all i, j, k.
Prefixes(v) == { SubSeq(v, 1, j) : j \in 1..Len(v) }
Suffixes(v) == { SubSeq(v, k, Len(v)) : k \in 1..Len(v) }
Substrings(v) ==
    { SubSeq(v, p[1], p[2]) : p \in { q \in (1..Len(v)) \X (1..Len(v)) : q[1] <= q[2] } }

(***************************************************************************)
(* BTree helpers.                                                          *)
(***************************************************************************)
EmptyMap == [k \in {} |-> {}]

\* Python's None where a rid, a limit or a set is expected.
None == << >>

\* del m[k]
MapDel(m, k) == [x \in (DOMAIN m) \ {k} |-> m[x]]

\* m[k] = v
MapPut(m, k, v) == [x \in (DOMAIN m) \cup {k} |-> IF x = k THEN v ELSE m[x]]

\* if k in m: m[k].insert(rid)  else: m[k] = IITreeSet([rid])    for every k in keys
InsertAll(m, keys, rid) ==
    [x \in (DOMAIN m) \cup keys |->
        IF x \in keys
        THEN (IF x \in DOMAIN m THEN m[x] ELSE {}) \cup {rid}
        ELSE m[x]]

\* m.get(k, IISet())
Get(m, k) == IF k \in DOMAIN m THEN m[k] ELSE {}

Ok(st) == [st |-> st, exc |-> "none"]
Raise(st, e) == [st |-> st, exc |-> e]

(***************************************************************************)
(* Members of the per-rid OOSet `rids[rid]`.  A String index stores        *)
(* substrings there; a Path index stores (level, part) tuples in the same  *)
(* set.  Python 2 orders str before tuple, strings lexicographically,      *)
(* tuples by level and then by part.                                       *)
(***************************************************************************)
StrItem(s) == [kind |-> "str", level |-> 0, text |-> s]
TokItem(l, p) == [kind |-> "tuple", level |-> l, text |-> p]

ItemLess(a, b) ==
    IF a.kind # b.kind THEN a.kind = "str"
    ELSE IF a.level # b.level THEN a.level < b.level
    ELSE StrLess(a.text, b.text)

\* The first member an iteration over the OOSet yields.
FirstItem(S) == CHOOSE a \in S : \A b \in S \ {a} : ItemLess(a, b)

(***************************************************************************)
(* String index                                                            *)
(***************************************************************************)
\* A value that is not a basestring.
NotAString == <<"<object>">>

IsString(v) == v # NotAString

StringReset(cs) ==
    [ case_sensitive |-> cs,
      rids |-> EmptyMap, values |-> EmptyMap, beginnings |-> EmptyMap,
      endings |-> EmptyMap, middles |-> EmptyMap ]

\* String.learn without the block that fills endings.
StringLearnNoEndings(st, rid, value0) ==
    IF ~IsString(value0) THEN Raise(st, "TypeError")
    ELSE
    LET value == IF st.case_sensitive THEN value0 ELSE Lower(value0)
    IN Ok([st EXCEPT
            !.values = InsertAll(@, {value}, rid),
            !.beginnings = InsertAll(@, Prefixes(value), rid),
            !.middles = InsertAll(@, Substrings(value), rid),
            !.rids = MapPut(@, rid, { StrItem(s) : s \in Substrings(value) }) ])

StringLearn(st, rid, value0) ==
    IF ~IsString(value0) THEN Raise(st, "TypeError")
    ELSE
    LET value == IF st.case_sensitive THEN value0 ELSE Lower(value0)
    IN Ok([st EXCEPT
            !.values = InsertAll(@, {value}, rid),
            !.beginnings = InsertAll(@, Prefixes(value), rid),
            !.middles = InsertAll(@, Substrings(value), rid),
            !.endings = InsertAll(@, Suffixes(value), rid),
            !.rids = MapPut(@, rid, { StrItem(s) : s \in Substrings(value) }) ])

\* The exception String.forget meets on the first pass of its loop: the loop
\* subscripts values, beginnings, middles and endings in turn with the first
\* member of rids[rid], and after the first successful remove it reads
\* self.substrings, an attribute that no class defines.
StringForget(st, rid) ==
    IF rid \notin DOMAIN st.rids THEN Raise(st, "KeyError")
    ELSE IF st.rids[rid] = {} THEN Ok([st EXCEPT !.rids = MapDel(@, rid)])
    ELSE
    LET a == FirstItem(st.rids[rid])
    IN IF a.kind = "str" /\ a.text \in DOMAIN st.values /\ rid \in st.values[a.text]
       THEN Raise([st EXCEPT !.values[a.text] = @ \ {rid}], "AttributeError")
       ELSE Raise(st, "KeyError")

\* _substring: the searches is_, startswith, contains and endswith.
StringSearch(st, index, arg) ==
    Get(index, IF st.case_sensitive THEN arg ELSE Lower(arg))

String_is(st, arg) == StringSearch(st, st.values, arg)
String_startswith(st, arg) == StringSearch(st, st.beginnings, arg)
String_contains(st, arg) == StringSearch(st, st.middles, arg)
String_endswith(st, arg) == StringSearch(st, st.endings, arg)

\* The rids some String search returns.
StringHeld(st) ==
    UNION ({ st.values[k] : k \in DOMAIN st.values }
           \cup { st.beginnings[k] : k \in DOMAIN st.beginnings }
           \cup { st.middles[k] : k \in DOMAIN st.middles }
           \cup { st.endings[k] : k \in DOMAIN st.endings })

(***************************************************************************)
(* Enumeration index                                                       *)
(***************************************************************************)
\* Python's None, passed as a value.
NoneValue == <<"<None>">>

\* ENUMERATION_NO_DEFAULT
NoDefault == <<"<no default>">>

\* The values the Enumeration indices of the model allow: "d" and "f".
EnumAllowed == { <<"d">>, <<"f">> }

EnumerationReset(allowed, default) ==
    [ allowed |-> allowed, default |-> default,
      values |-> EmptyMap, rids |-> EmptyMap ]

\* learn names MARKER, which indices.py neither defines nor imports.
EnumerationLearn(st, rid, value) ==
    IF value = NoneValue THEN Raise(st, "NameError")
    ELSE IF value \notin st.allowed THEN Raise(st, "ValueError")
    ELSE Ok([st EXCEPT !.rids = InsertAll(@, {value}, rid),
                       !.values = MapPut(@, rid, value)])

\* forget(self, rid, value): args are the arguments of the call after self.
EnumerationForget(st, args) ==
    IF Len(args) # 2 THEN Raise(st, "TypeError")
    ELSE
    LET rid == args[1]
    IN IF rid \notin DOMAIN st.values THEN Raise(st, "KeyError")
       ELSE
       LET value == st.values[rid]
       IN IF value \notin DOMAIN st.rids \/ rid \notin st.rids[value]
          THEN Raise(st, "KeyError")
          ELSE
          LET left == st.rids[value] \ {rid}
              pruned == IF left = {} THEN MapDel(st.rids, value)
                        ELSE MapPut(st.rids, value, left)
          IN Ok([st EXCEPT !.rids = pruned, !.values = MapDel(@, rid)])

Enumeration_is(st, value) == Get(st.rids, value)

\* The rids some Enumeration search returns.
EnumerationHeld(st) == UNION { st.rids[k] : k \in DOMAIN st.rids }

(***************************************************************************)
(* Path index                                                              *)
(***************************************************************************)
Sep == "/"

\* str.rstrip(os.sep)
RECURSIVE RStrip(_)
RStrip(s) ==
    IF Len(s) > 0 /\ s[Len(s)] = Sep THEN RStrip(SubSeq(s, 1, Len(s) - 1)) ELSE s

\* str.split(os.sep): a sequence of strings, never empty.
RECURSIVE Split(_)
Split(s) ==
    IF \A n \in 1..Len(s) : s[n] # Sep THEN <<s>>
    ELSE LET n == CHOOSE m \in 1..Len(s) :
                      s[m] = Sep /\ \A k \in 1..(m - 1) : s[k] # Sep
         IN <<SubSeq(s, 1, n - 1)>> \o Split(SubSeq(s, n + 1, Len(s)))

\* os.sep.join(parts)
RECURSIVE Join(_)
Join(parts) ==
    IF Len(parts) = 0 THEN <<>>
    ELSE IF Len(parts) = 1 THEN parts[1]
    ELSE parts[1] \o <<Sep>> \o Join(Tail(parts))

\* Path.reset: String.reset, and then rids is assigned a second time.
PathReset(cs) ==
    [ case_sensitive |-> cs,
      rids |-> EmptyMap, values |-> EmptyMap, beginnings |-> EmptyMap,
      endings |-> EmptyMap, middles |-> EmptyMap,
      path2rid |-> EmptyMap, rid2path |-> EmptyMap,
      parts |-> EmptyMap, levels |-> EmptyMap ]

\* The (level, part) tokens of a split path.
Tokens(parts) == { <<l - 1, parts[l]>> : l \in 1..Len(parts) }

\* The rest of Path.learn, once its call of String.learn has returned (r).
\* String.learn has already stored the substrings under rids[rid] when the
\* loop over the levels runs, so the tokens are added to that same set.
PathLearnRest(r, rid, value, parts) ==
    IF r.exc # "none" THEN r
    ELSE IF Len(value) > 0 /\ value[1] # Sep THEN Raise(r.st, "ValueError")
    ELSE Ok([r.st EXCEPT
               !.path2rid = MapPut(@, RStrip(IF r.st.case_sensitive THEN value
                                             ELSE Lower(value)), rid),
               !.rid2path = MapPut(@, rid, RStrip(IF r.st.case_sensitive THEN value
                                                  ELSE Lower(value))),
               !.parts = InsertAll(@, Tokens(parts), rid),
               !.rids = MapPut(@, rid,
                           @[rid] \cup { TokItem(t[1], t[2]) : t \in Tokens(parts) }),
               !.levels = InsertAll(@, {Len(parts) - 1}, rid) ])

PathLearn(st, rid, value) ==
    PathLearnRest(StringLearn(st, rid, value), rid, value, Split(value))

\* The loop of Path.forget over rids[rid]: remove rid from parts[token_] and
\* prune, tracking the highest level seen.  A member that is a substring is
\* no key of parts.
RECURSIVE ForgetTokens(_, _, _)
ForgetTokens(ps, items, rid) ==
    IF items = {} THEN Ok(ps)
    ELSE IF FirstItem(items).kind # "tuple"
            \/ <<FirstItem(items).level, FirstItem(items).text>> \notin DOMAIN ps
    THEN Raise(ps, "KeyError")
    ELSE IF rid \notin ps[<<FirstItem(items).level, FirstItem(items).text>>]
    THEN Raise(ps, "KeyError")
    ELSE ForgetTokens(
            IF ps[<<FirstItem(items).level, FirstItem(items).text>>] = {rid}
            THEN MapDel(ps, <<FirstItem(items).level, FirstItem(items).text>>)
            ELSE MapPut(ps, <<FirstItem(items).level, FirstItem(items).text>>,
                        ps[<<FirstItem(items).level, FirstItem(items).text>>] \ {rid}),
            items \ {FirstItem(items)}, rid)

TopLevel(items) ==
    IF items = {} THEN -1
    ELSE CHOOSE l \in { a.level : a \in items } : \A a \in items : a.level <= l

\* The end of Path.forget: path = self.rid2path[rid]; del self.path2rid[path];
\* del self.rid2path[rid].
PathForgetIdentity(s, rid) ==
    IF rid \notin DOMAIN s.rid2path THEN Raise(s, "KeyError")
    ELSE IF s.rid2path[rid] \notin DOMAIN s.path2rid THEN Raise(s, "KeyError")
    ELSE Ok([s EXCEPT !.path2rid = MapDel(@, s.rid2path[rid]),
                      !.rid2path = MapDel(@, rid)])

\* Path.forget after its loop over rids[rid] (t is what the loop did to
\* parts, level the highest level it saw).
PathForgetLevels(s, rid, level, t) ==
    IF t.exc # "none" THEN Raise([s EXCEPT !.parts = t.st], t.exc)
    ELSE IF level \notin DOMAIN s.levels
    THEN Raise([s EXCEPT !.parts = t.st], "KeyError")
    ELSE IF rid \notin s.levels[level]
    THEN Raise([s EXCEPT !.parts = t.st], "KeyError")
    ELSE PathForgetIdentity(
            [s EXCEPT !.parts = t.st,
                      !.levels = IF @[level] = {rid} THEN MapDel(@, level)
                                 ELSE MapPut(@, level, @[level] \ {rid}),
                      !.rids = MapDel(@, rid)],
            rid)

\* Path.forget after its call of String.forget has returned (r).
PathForgetRest(r, rid) ==
    IF r.exc # "none" THEN r
    ELSE IF rid \notin DOMAIN r.st.rids THEN Raise(r.st, "KeyError")
    ELSE PathForgetLevels(r.st, rid, TopLevel(r.st.rids[rid]),
                          ForgetTokens(r.st.parts, r.st.rids[rid], rid))

PathForget(st, rid) == PathForgetRest(StringForget(st, rid), rid)

\* Path.is_ looks the argument up as given.
Path_is(st, arg) == IF arg \in DOMAIN st.path2rid THEN {st.path2rid[arg]} ELSE {}

\* The rids some Path search can return.
PathHeld(st) ==
    StringHeld(st) \cup { st.path2rid[k] : k \in DOMAIN st.path2rid }
    \cup UNION { st.parts[k] : k \in DOMAIN st.parts }

(***************************************************************************)
(* The searches of a Path index.  A search yields [exc, none, rids]: the   *)
(* exception it raised ("none" when it returned), whether it returned None *)
(* rather than a set, and the set it returned.                             *)
(***************************************************************************)
Returned(rids) == [exc |-> "none", none |-> FALSE, rids |-> rids]
ReturnedNone == [exc |-> "none", none |-> TRUE, rids |-> {}]
Raised(e) == [exc |-> e, none |-> FALSE, rids |-> {}]

\* str.split() with no argument: the words between runs of whitespace.
RECURSIVE SplitWs(_)
SplitWs(s) ==
    IF Len(s) = 0 THEN << >>
    ELSE IF s[1] = " " THEN SplitWs(Tail(s))
    ELSE IF \A n \in 1..Len(s) : s[n] # " " THEN <<s>>
    ELSE LET n == CHOOSE m \in 1..Len(s) :
                      s[m] = " " /\ \A k \in 1..(m - 1) : s[k] # " "
         IN <<SubSeq(s, 1, n - 1)>> \o SplitWs(SubSeq(s, n + 1, Len(s)))

\* limits.count(':')
CountColons(s) == Cardinality({ n \in 1..Len(s) : s[n] = ":" })

\* limits.split(':') of a string with exactly one colon.
BeforeColon(s) == SubSeq(s, 1, (CHOOSE n \in 1..Len(s) : s[n] = ":") - 1)
AfterColon(s) == SubSeq(s, (CHOOSE n \in 1..Len(s) : s[n] = ":") + 1, Len(s))

Digits == <<"0", "1", "2", "3", "4", "5", "6", "7", "8", "9">>

\* str.isdigit()
IsDigit(s) == Len(s) > 0 /\ \A n \in 1..Len(s) : \E d \in 1..10 : Digits[d] = s[n]

\* int(s) of a string of digits
RECURSIVE ToInt(_)
ToInt(s) ==
    IF Len(s) = 0 THEN 0
    ELSE 10 * ToInt(SubSeq(s, 1, Len(s) - 1))
         + (CHOOSE d \in 0..9 : Digits[d + 1] = s[Len(s)])

\* The end of _path_and_limits: '/' stands for the empty path, and the path
\* is lowercased by a case-insensitive index.
ParsedPath(st, path, upper, lower) ==
    [exc |-> "none",
     path |-> IF path = <<Sep>> THEN << >>
              ELSE IF st.case_sensitive THEN path ELSE Lower(path),
     upper |-> upper, lower |-> lower]

ParseFailed(e) == [exc |-> e, path |-> << >>, upper |-> None, lower |-> None]

\* The limits of _path_and_limits, once split at the colon: None or int.
Limit(s) == IF Len(s) = 0 THEN None ELSE <<ToInt(s)>>

\* Path._path_and_limits
PathAndLimits(st, arg) ==
    IF Len(SplitWs(arg)) \notin {1, 2} THEN ParseFailed("AssertionError")
    ELSE IF Len(SplitWs(arg)) = 1 THEN ParsedPath(st, SplitWs(arg)[1], None, None)
    ELSE IF CountColons(SplitWs(arg)[2]) # 1 THEN ParseFailed("ValueError")
    ELSE IF Len(BeforeColon(SplitWs(arg)[2])) > 0 /\ ~IsDigit(BeforeColon(SplitWs(arg)[2]))
    THEN ParseFailed("ValueError")
    ELSE IF Len(AfterColon(SplitWs(arg)[2])) > 0 /\ ~IsDigit(AfterColon(SplitWs(arg)[2]))
    THEN ParseFailed("ValueError")
    ELSE IF /\ Len(BeforeColon(SplitWs(arg)[2])) > 0
            /\ Len(AfterColon(SplitWs(arg)[2])) > 0
            /\ ToInt(BeforeColon(SplitWs(arg)[2])) > ToInt(AfterColon(SplitWs(arg)[2]))
    THEN ParseFailed("ValueError")
    ELSE ParsedPath(st, SplitWs(arg)[1], Limit(BeforeColon(SplitWs(arg)[2])),
                    Limit(AfterColon(SplitWs(arg)[2])))

\* The first loop of below: intersect parts[(level, parts[level])] over the
\* levels of the path; acc is None (<<>>) before the first level.
RECURSIVE BelowParts(_, _, _, _)
BelowParts(st, parts, level, acc) ==
    IF level > Len(parts) - 1 THEN [exc |-> "none", acc |-> acc]
    ELSE IF <<level, parts[level + 1]>> \notin DOMAIN st.parts
    THEN [exc |-> "KeyError", acc |-> acc]
    ELSE BelowParts(st, parts, level + 1,
            IF acc = None THEN <<st.parts[<<level, parts[level + 1]>>]>>
            ELSE <<acc[1] \cap st.parts[<<level, parts[level + 1]>>]>>)

\* The levels i of range(from, to) that a loop of below visits before it
\* meets one that is not in self.levels and breaks.
LevelsVisited(st, from, to) ==
    { k \in from..(to - 1) : \A j \in from..k : j \in DOMAIN st.levels }

\* if upper is not None: remove the rids of the levels range(level, level + upper).
BelowUpper(st, rids, level, upper) ==
    IF upper = None THEN rids
    ELSE rids \ UNION { st.levels[k] : k \in LevelsVisited(st, level, level + upper[1]) }

\* if lower is not None: keep the rids of the levels range(level, level + lower).
BelowLower(st, rids, level, lower) ==
    IF lower = None THEN rids
    ELSE rids \cap UNION { st.levels[k] : k \in LevelsVisited(st, level, level + lower[1]) }

\* below, after _path_and_limits returned q.
BelowParsed(st, q) ==
    IF q.exc # "none" THEN Raised(q.exc)
    ELSE IF q.path \notin DOMAIN st.path2rid THEN ReturnedNone
    ELSE IF BelowParts(st, Split(q.path), 0, None).exc # "none"
    THEN Raised(BelowParts(st, Split(q.path), 0, None).exc)
    ELSE Returned(BelowLower(st,
                     BelowUpper(st, BelowParts(st, Split(q.path), 0, None).acc[1],
                                Len(Split(q.path)) - 1, q.upper),
                     Len(Split(q.path)) - 1, q.lower))

\* Path.below
PathBelow(st, arg) == BelowParsed(st, PathAndLimits(st, arg))

\* str(n) of a non-negative int
RECURSIVE ToStr(_)
ToStr(n) == IF n < 10 THEN <<Digits[n + 1]>> ELSE ToStr(n \div 10) \o <<Digits[(n % 10) + 1]>>

\* The limits above hands on to below, after `tmpl = "%s "`: '0:1' when no
\* limit was given, and the limits as given otherwise.
LimitsText(upper, lower) ==
    IF upper = None /\ lower = None THEN <<"0", ":", "1">>
    ELSE (IF upper = None THEN << >> ELSE ToStr(upper[1])) \o <<":">>
         \o (IF lower = None THEN << >> ELSE ToStr(lower[1]))

\* ancestor = os.sep.join(parts[:level+1]); ancestor = ancestor and ancestor or '/'
Ancestor(parts, n) ==
    IF Join(SubSeq(parts, 1, n)) = << >> THEN <<Sep>> ELSE Join(SubSeq(parts, 1, n))

\* The loop of above over the ancestors, from the one of n parts on, and what
\* follows it: below is called for each ancestor; multiunion raises if one
\* of the results is None (sawNone); the union is assigned to a local name
\* and the method ends without a return statement.
RECURSIVE AboveFrom(_, _, _, _, _)
AboveFrom(st, parts, n, limits, sawNone) ==
    IF n > Len(parts) THEN (IF sawNone THEN Raised("TypeError") ELSE ReturnedNone)
    ELSE IF PathBelow(st, Ancestor(parts, n) \o <<" ">> \o limits).exc # "none"
    THEN Raised(PathBelow(st, Ancestor(parts, n) \o <<" ">> \o limits).exc)
    ELSE AboveFrom(st, parts, n + 1, limits,
                   sawNone \/ PathBelow(st, Ancestor(parts, n) \o <<" ">> \o limits).none)

\* above, after _path_and_limits returned q.
AboveParsed(st, q) ==
    IF q.exc # "none" THEN Raised(q.exc)
    ELSE IF q.path \notin DOMAIN st.path2rid THEN ReturnedNone
    ELSE AboveFrom(st, Split(q.path), 1, LimitsText(q.upper, q.lower), FALSE)

\* Path.above
PathAbove(st, arg) == AboveParsed(st, PathAndLimits(st, arg))

(***************************************************************************)
(* The filesystem under the catalog's root "/r": a directory "/r/d" with a  *)
(* file "/r/d/c" in it, and a file "/r/_x".                                *)
(***************************************************************************)
Root == <<"/", "r">>

\* os.path.join(dirpath, name)
PathJoin(dirpath, name) == dirpath \o <<Sep>> \o name

\* What a directory can hold, as os.walk lists it: dirs + files.
Children(dir) ==
    IF dir = Root THEN << <<"d">>, <<"_", "x">> >>
    ELSE IF dir = PathJoin(Root, <<"d">>) THEN << <<"c">> >>
    ELSE << >>

\* The directories: the root, d, and _x, which holds nothing.
IsDir(p) == p \in { Root, PathJoin(Root, <<"d">>), PathJoin(Root, <<"_", "x">>) }

AllPaths ==
    { Root, PathJoin(Root, <<"d">>), PathJoin(Root, <<"_", "x">>),
      PathJoin(PathJoin(Root, <<"d">>), <<"c">>) }

\* os.path.exists(path); os.stat(path) succeeds exactly then.
Exists(p) == p \in DOMAIN fs /\ fs[p] # 0

Parent(p) == IF p = Root THEN Root ELSE Join(SubSeq(Split(p), 1, Len(Split(p)) - 1))

Under(dir) == { p \in AllPaths : p # dir /\ Parent(p) = dir }

\* A directory tree: nothing exists in a directory that does not.
FsOk(f) == \A p \in AllPaths : f[p] # 0 => f[Parent(p)] # 0

\* for dirpath, dirs, files in os.walk(top): for name in (dirs + files):
\* the paths join(dirpath, name), in the order the loop meets them.  tops are
\* the directories os.walk has yet to list, the next one first.
RECURSIVE WalkFrom(_)
WalkFrom(tops) ==
    IF tops = << >> THEN << >>
    ELSE
    LET top == Head(tops)
        names == Children(top)
        here == SelectSeq([n \in 1..Len(names) |-> PathJoin(top, names[n])], Exists)
    IN here \o WalkFrom(SelectSeq(here, IsDir) \o Tail(tops))

Walk(top) == WalkFrom(<<top>>)

\* Catalog.ignore: fnmatch(path, '*/.*') or fnmatch(path, '*/_*').
Ignore(path) ==
    \E n \in 1..(Len(path) - 1) : path[n] = Sep /\ path[n + 1] \in {".", "_"}

(***************************************************************************)
(* Catalog                                                                 *)
(***************************************************************************)
\* The names under which indices can be installed, in the order
\* self.indices yields them, and the class installed under each: a String
\* under "name" and "ext", an Enumeration under "kind", a Path under "path",
\* under "raw" an instance of the base class Index, which has no sorted
\* view and whose learn and forget raise NotImplementedError, and under
\* "dirs" an Enumeration that allows "d" alone.
IndexOrder == <<"name", "kind", "path", "ext", "raw", "dirs">>

IndexReset(name) ==
    CASE name = "name" -> StringReset(FALSE)
      [] name = "kind" -> EnumerationReset(EnumAllowed, NoDefault)
      [] name = "path" -> PathReset(TRUE)
      [] name = "ext" -> StringReset(TRUE)
      [] name = "raw" -> [class |-> "Index"]
      [] name = "dirs" -> EnumerationReset({ <<"d">> }, NoDefault)

\* A key of an IITreeSet, IIBTree or IOBTree must fit a C int.
FitsInt(rid) == rid < RidSpace

\* index.learn(rid, value)
IndexLearn(name, st, rid, value) ==
    IF ~FitsInt(rid) THEN Raise(st, "TypeError")
    ELSE CASE name = "name" -> StringLearn(st, rid, value)
           [] name = "kind" -> EnumerationLearn(st, rid, value)
           [] name = "path" -> PathLearn(st, rid, value)
           [] name = "ext" -> StringLearn(st, rid, value)
           [] name = "raw" -> Raise(st, "NotImplementedError")
           [] name = "dirs" -> EnumerationLearn(st, rid, value)

\* index.forget(rid)
IndexForget(name, st, rid) ==
    CASE name = "name" -> StringForget(st, rid)
      [] name = "kind" -> EnumerationForget(st, <<rid>>)
      [] name = "path" -> PathForget(st, rid)
      [] name = "ext" -> StringForget(st, rid)
      [] name = "raw" -> Raise(st, "NotImplementedError")
      [] name = "dirs" -> EnumerationForget(st, <<rid>>)

\* The rids the searches of an index can return.
IndexHeld(name, st) ==
    CASE name = "name" -> StringHeld(st)
      [] name = "kind" -> EnumerationHeld(st)
      [] name = "path" -> PathHeld(st)
      [] name = "ext" -> StringHeld(st)
      [] name = "raw" -> {}
      [] name = "dirs" -> EnumerationHeld(st)

\* Catalog.__init__ and the indices the embedder installs.
CatalogInit(installed) ==
    [ ridtimes |-> EmptyMap, resources |-> EmptyMap, rids |-> {},
      indices |-> [n \in installed |-> IndexReset(n)] ]

\* self.Resource(path): the record the embedder's class builds from the path
\* and from the file as it is then.
Resource(path) == [path |-> path, stamp |-> fs[path]]

\* MARKER: the resource has no attribute of that name.
Marker == <<"<MARKER>">>

\* getattr(resource_, name, MARKER), for the embedder's class: name is the
\* last part of the path, kind tells directories from files, path is the
\* path, and dirs is the same as kind; only a file has the attribute ext
\* (its name), and no resource has an attribute raw.
Attr(resource, name) ==
    CASE name = "name" -> Split(resource.path)[Len(Split(resource.path))]
      [] name \in {"kind", "dirs"} -> IF IsDir(resource.path) THEN <<"d">> ELSE <<"f">>
      [] name = "path" -> resource.path
      [] name = "ext" /\ ~IsDir(resource.path)
            -> Split(resource.path)[Len(Split(resource.path))]
      [] OTHER -> Marker

\* self._v_nextrid += 1.  No value beyond RidSpace fits the integer BTrees
\* and all of them behave alike, so RidSpace + 1 stands for every one of them.
Following(rid) == IF rid < RidSpace THEN rid + 1 ELSE RidSpace + 1

\* One pass of the loop of _generate_rid with a candidate that is not in
\* self.rids.  `rid not in self.rids` with a rid that does not fit a C int
\* raises TypeError in some builds of the BTrees and is true in others.
TryRid(rid) ==
    { [rid |-> rid, next |-> <<Following(rid)>>, exc |-> "none"] }
    \cup (IF FitsInt(rid) THEN {}
          ELSE { [rid |-> rid, next |-> <<Following(rid)>>, exc |-> "TypeError"] })

\* _generate_rid without the test `rid not in self.rids`.
GenerateRidNoCheck(next, rids) ==
    IF next # None THEN TryRid(next[1])
    ELSE UNION { TryRid(r) : r \in 0..RidSpace }

\* The ways _generate_rid can end: after a collision (or with _v_nextrid
\* unset) it draws random.randint(0, 2**31), both ends included, until the
\* draw is not in self.rids.
GenerateRid(next, rids) ==
    IF next # None /\ next[1] \notin rids THEN TryRid(next[1])
    ELSE UNION { TryRid(r) : r \in (0..RidSpace) \ rids }

\* _add_update without the loop over self.indices.
LearnNone(r, n, rid, resource) == r

\* The loop of _add_update over self.indices, from the n-th index on; r is
\* what the calls of learn made so far have done to the indices.
RECURSIVE LearnAll(_, _, _, _)
LearnAll(r, n, rid, resource) ==
    IF r.exc # "none" \/ n > Len(IndexOrder) THEN r
    ELSE IF IndexOrder[n] \notin DOMAIN r.st THEN LearnAll(r, n + 1, rid, resource)
    ELSE IF Attr(resource, IndexOrder[n]) = Marker THEN LearnAll(r, n + 1, rid, resource)
    ELSE LearnAll(
            [st |-> [r.st EXCEPT ![IndexOrder[n]] =
                        IndexLearn(IndexOrder[n], @, rid, Attr(resource, IndexOrder[n])).st],
             exc |-> IndexLearn(IndexOrder[n], r.st[IndexOrder[n]], rid,
                                Attr(resource, IndexOrder[n])).exc],
            n + 1, rid, resource)

\* StoreMaps without self.rids.insert(rid).
StoreMapsNoRids(c, r, rid, path, modtime, resource) ==
    IF r.exc # "none" THEN Raise([c EXCEPT !.indices = r.st], r.exc)
    ELSE Ok([c EXCEPT !.indices = r.st,
                      !.ridtimes = MapPut(@, path, <<rid, modtime>>),
                      !.resources = MapPut(@, rid, resource)])

\* The end of _add_update, after the loop over the indices (r): write
\* ridtimes, resources and rids.
StoreMaps(c, r, rid, path, modtime, resource) ==
    IF r.exc # "none" THEN Raise([c EXCEPT !.indices = r.st], r.exc)
    ELSE IF ~FitsInt(rid)
    THEN Raise([c EXCEPT !.indices = r.st,
                         !.ridtimes = MapPut(@, path, <<rid, modtime>>)], "TypeError")
    ELSE Ok([c EXCEPT !.indices = r.st,
                      !.ridtimes = MapPut(@, path, <<rid, modtime>>),
                      !.resources = MapPut(@, rid, resource),
                      !.rids = @ \cup {rid}])

\* The second half of _add_update: build the resource, teach the indices,
\* then write ridtimes, resources and rids.
Store(c, rid, path, modtime) ==
    StoreMaps(c, LearnAll(Ok(c.indices), 1, rid, Resource(path)),
              rid, path, modtime, Resource(path))

NoAlloc == [made |-> FALSE, rid |-> 0, taken |-> FALSE, reused |-> FALSE, collided |-> FALSE]

\* What is recorded of a rid _generate_rid returned.
Allocated(rid, next, rids) ==
    [made |-> TRUE, rid |-> rid, taken |-> rid \in rids, reused |-> rid \in forgotten,
     collided |-> IF next = None THEN FALSE ELSE next[1] \in rids]

\* How a call of _add_update ended: the catalog it leaves, _v_nextrid, the
\* exception, whether it called learn, and the rid it had allocated.
Outcome(r, next, learn, al) ==
    [cat |-> r.st, next |-> next, exc |-> r.exc, learn |-> learn, alloc |-> al]

\* _add_update(path) for a path that is not in ridtimes, g being the way
\* _generate_rid ended.
AddNew(c, next, path, g) ==
    IF g.exc # "none" THEN Outcome(Raise(c, g.exc), g.next, FALSE, NoAlloc)
    ELSE IF ~Exists(path)
    THEN Outcome(Raise(c, "OSError"), g.next, FALSE, Allocated(g.rid, next, c.rids))
    ELSE Outcome(Store(c, g.rid, path, fs[path]), g.next, DOMAIN c.indices # {},
                 Allocated(g.rid, next, c.rids))

\* _add_update that returns for every path already in ridtimes, whatever its mtime.
AddUpdateNoReindex(c, next, path) ==
    IF path \notin DOMAIN c.ridtimes
    THEN { AddNew(c, next, path, g) : g \in GenerateRid(next, c.rids) }
    ELSE IF ~Exists(path) THEN { Outcome(Raise(c, "OSError"), next, FALSE, NoAlloc) }
    ELSE { Outcome(Ok(c), next, FALSE, NoAlloc) }

\* _add_update without the `else: return` of an unchanged mtime.
AddUpdateAlways(c, next, path) ==
    IF path \notin DOMAIN c.ridtimes
    THEN { AddNew(c, next, path, g) : g \in GenerateRid(next, c.rids) }
    ELSE IF ~Exists(path) THEN { Outcome(Raise(c, "OSError"), next, FALSE, NoAlloc) }
    ELSE { Outcome(Store(c, c.ridtimes[path][1], path, fs[path]), next,
                   DOMAIN c.indices # {}, NoAlloc) }

\* The ways _add_update(path) can end.
AddUpdate(c, next, path) ==
    IF path \notin DOMAIN c.ridtimes
    THEN { AddNew(c, next, path, g) : g \in GenerateRid(next, c.rids) }
    ELSE IF ~Exists(path) THEN { Outcome(Raise(c, "OSError"), next, FALSE, NoAlloc) }
    ELSE IF fs[path] = c.ridtimes[path][2] THEN { Outcome(Ok(c), next, FALSE, NoAlloc) }
    ELSE { Outcome(Store(c, c.ridtimes[path][1], path, fs[path]), next,
                   DOMAIN c.indices # {}, NoAlloc) }

\* The loop of the unindex pass over self.indices, from the n-th index on; r
\* is what the calls of forget made so far have done to the indices.
RECURSIVE ForgetAll(_, _, _)
ForgetAll(r, n, rid) ==
    IF r.exc # "none" \/ n > Len(IndexOrder) THEN r
    ELSE IF IndexOrder[n] \notin DOMAIN r.st THEN ForgetAll(r, n + 1, rid)
    ELSE ForgetAll(
            [st |-> [r.st EXCEPT ![IndexOrder[n]] = IndexForget(IndexOrder[n], @, rid).st],
             exc |-> IndexForget(IndexOrder[n], r.st[IndexOrder[n]], rid).exc],
            n + 1, rid)

\* The first key an iteration over an OOBTree of paths yields.
FirstPath(S) == CHOOSE p \in S : \A q \in S \ {p} : StrLess(p, q)

\* The body of the loop `for path in self.ridtimes` for a path that no
\* longer exists, after the indices were told to forget rid (r):
\* del self.resources[rid]; self.rids.remove(rid).
UnindexPath(c, r, rid) ==
    IF r.exc # "none" THEN Raise([c EXCEPT !.indices = r.st], r.exc)
    ELSE IF rid \notin DOMAIN c.resources
    THEN Raise([c EXCEPT !.indices = r.st], "KeyError")
    ELSE IF rid \notin c.rids
    THEN Raise([c EXCEPT !.indices = r.st, !.resources = MapDel(@, rid)], "KeyError")
    ELSE Ok([c EXCEPT !.indices = r.st, !.resources = MapDel(@, rid),
                      !.rids = @ \ {rid}])

\* The loop `for path in self.ridtimes` of the unindex pass over the paths
\* left to visit; ridtimes itself is changed only after the loop.
RECURSIVE UnindexLoop(_, _)
UnindexLoop(r, paths) ==
    IF r.exc # "none" \/ paths = {} THEN r
    ELSE IF Exists(FirstPath(paths)) THEN UnindexLoop(r, paths \ {FirstPath(paths)})
    ELSE UnindexLoop(
            UnindexPath(r.st,
                        ForgetAll(Ok(r.st.indices), 1, r.st.ridtimes[FirstPath(paths)][1]),
                        r.st.ridtimes[FirstPath(paths)][1]),
            paths \ {FirstPath(paths)})

\* The unindex pass without its loop `for path in to_delete`.
UnindexEndKeep(r) == r

\* The loop `for path in to_delete` that ends the unindex pass.
UnindexEnd(r) ==
    IF r.exc # "none" THEN r
    ELSE Ok([r.st EXCEPT !.ridtimes = [p \in { q \in DOMAIN @ : Exists(q) } |-> @[p]]])

\* The unindex pass of crawl_once.
Unindex(c) == UnindexEnd(UnindexLoop(Ok(c), DOMAIN c.ridtimes))

(***************************************************************************)
(* The crawl: crawl_once as Catalog.crawl and the CLI's do_crawl run it,   *)
(* `try: crawl_once(); transaction.commit()  finally: transaction.abort()`. *)
(* The filesystem changes between the calls.                               *)
(***************************************************************************)
\* The sets of indices the embedder may have installed.
Installations == { {}, {"name"}, {"kind"}, {"path"}, {"name", "kind", "path"} }

\* A new catalog with one of the given sets of indices installed, over any
\* state of the filesystem.
CatalogStartWith(installations) ==
    /\ fs \in { f \in [AllPaths -> 0..MaxTime] : FsOk(f) }
    /\ \E installed \in installations : cat = CatalogInit(installed)
    /\ db = cat
    /\ nextrid = None
    /\ pc = "idle"
    /\ todo = << >>
    /\ i = 0
    /\ last = "none"
    /\ pre = cat
    /\ issued = FALSE
    /\ alloc = NoAlloc
    /\ forgotten = {}
    /\ order = "none"

CatalogStart == CatalogStartWith(Installations)

\* No crawler thread has been started, and nothing awaits a commit.
NoThread == [at |-> "none", exc |-> "none"]

CrawlerIdle ==
    /\ crawler = NoThread
    /\ stop = "unmade"
    /\ since = 0
    /\ later = [k \in 2..MaxThreads |-> NoThread]

\* No Collection has been made.
NoCollection == [made |-> FALSE, constraints |-> << >>, limit |-> None, sort |-> None,
                 data |-> None]

CollectionIdle ==
    /\ coll = NoCollection
    /\ cop = [name |-> "init", arg |-> << >>, exc |-> "none", upd |-> "none",
              before |-> NoCollection, out |-> << >>]

\* The filesystem, the catalog and the crawl at rest, for the specifications
\* that drive an index directly.
CatalogIdle ==
    /\ fs = [p \in AllPaths |-> 0]
    /\ cat = CatalogInit({})
    /\ db = cat
    /\ nextrid = None
    /\ pc = "idle"
    /\ todo = << >>
    /\ i = 0
    /\ last = "none"
    /\ pre = cat
    /\ issued = FALSE
    /\ alloc = NoAlloc
    /\ forgotten = {}
    /\ order = "none"

\* A change of the filesystem starts a new round: what is recorded about
\* the last crawl_once is dropped.
FsChange(f) ==
    /\ pc = "idle"
    /\ fs' = f
    /\ last' = "none"
    /\ pre' = cat
    /\ issued' = FALSE
    /\ alloc' = NoAlloc
    /\ order' = "none"
    /\ UNCHANGED <<cat, db, nextrid, pc, todo, i, forgotten, ixvars, colvars, thrvars>>

Create(p, t) ==
    /\ ~Exists(p)
    /\ Exists(Parent(p)) \/ p = Root
    /\ FsChange([fs EXCEPT ![p] = t])

Touch(p, t) ==
    /\ Exists(p)
    /\ t # fs[p]
    /\ FsChange([fs EXCEPT ![p] = t])

Delete(p) ==
    /\ Exists(p)
    /\ \A q \in Under(p) : ~Exists(q)
    /\ FsChange([fs EXCEPT ![p] = 0])

\* The process ends and a new one opens the database: the catalog is as last
\* committed, and _v_nextrid, a volatile attribute, is unset.
Restart ==
    /\ pc = "idle"
    /\ nextrid # None
    /\ nextrid' = None
    /\ forgotten' = {}
    /\ last' = "none"
    /\ pre' = cat
    /\ issued' = FALSE
    /\ alloc' = NoAlloc
    /\ order' = "none"
    /\ UNCHANGED <<fs, cat, db, pc, todo, i, ixvars, colvars, thrvars>>

\* An exception leaves crawl_once and its caller does not abort: the
\* connection keeps what the call had changed before the failing statement.
NotAborted ==
    /\ cat' = cat
    /\ db' = db
    /\ pc' = "idle"
    /\ todo' = << >>
    /\ last' = "raised"
    /\ UNCHANGED forgotten

\* transaction.abort() after an exception left crawl_once.
Aborted ==
    /\ cat' = db
    /\ db' = db
    /\ pc' = "idle"
    /\ todo' = << >>
    /\ last' = "raised"
    /\ UNCHANGED forgotten

\* What a pass that touches the catalog adds to the record of the passes
\* of this crawl_once.
Passed(sofar, pass) ==
    IF pass = "add"
    THEN (IF sofar \in {"none", "add"} THEN "add" ELSE "mixed")
    ELSE (IF sofar = "none" THEN "unindex"
          ELSE IF sofar = "add" THEN "add,unindex"
          ELSE sofar)

\* _add_update, ending as o on the catalog c, got past os.stat: it called
\* learn or wrote to ridtimes, resources or rids.
Added(c, o) == o.learn \/ o.cat # c

\* A checkpoint test that lets two more entries pass.
CheckpointLate(n) == n % (CommitEvery + 2) = 0

\* `if (i % 20) == 0`
Checkpoint(n) == n % CommitEvery = 0

\* crawl_once is called: self._add_update(self.root), which ends as o;
\* i = 0; os.walk begins.
CrawlBeginAs(root, o) ==
    /\ nextrid' = o.next
    /\ alloc' = o.alloc
    /\ issued' = o.learn
    /\ order' = IF Added(cat, o) THEN "add" ELSE "none"
    /\ IF o.exc # "none"
       THEN Aborted
       ELSE /\ cat' = o.cat
            /\ pc' = "walk"
            /\ todo' = Walk(root)
            /\ UNCHANGED <<db, last, forgotten>>

\* crawl_once is called, none being in progress.
CrawlOnceCalled ==
    /\ pc = "idle"
    /\ pre' = cat
    /\ i' = 0

CrawlBegin ==
    /\ CrawlOnceCalled
    /\ \E o \in AddUpdate(cat, nextrid, Root) : CrawlBeginAs(Root, o)
    /\ UNCHANGED <<fs, ixvars, colvars, thrvars>>

\* One pass of the loop `for name in (dirs + files)` for a path that is not
\* ignored and on which _add_update ends as o.
CrawlEntryAs(o) ==
    /\ nextrid' = o.next
    /\ alloc' = IF o.alloc.made THEN o.alloc ELSE alloc
    /\ issued' = (issued \/ o.learn)
    /\ order' = IF Added(cat, o) THEN Passed(order, "add") ELSE order
    /\ IF o.exc \notin {"none", "OSError"}
       THEN Aborted /\ UNCHANGED i
       ELSE /\ cat' = o.cat
            /\ db' = IF Checkpoint(i) THEN o.cat ELSE db
            /\ i' = i + 1
            /\ todo' = Tail(todo)
            /\ UNCHANGED <<pc, last, forgotten>>

\* `if self.ignore(path): continue`
CrawlEntryIgnored ==
    /\ todo' = Tail(todo)
    /\ UNCHANGED <<cat, db, nextrid, pc, i, last, issued, alloc, forgotten, order>>

\* One pass of the loop `for name in (dirs + files)`.
CrawlEntry ==
    /\ pc = "walk"
    /\ todo # << >>
    /\ IF Ignore(Head(todo))
       THEN CrawlEntryIgnored
       ELSE \E o \in AddUpdate(cat, nextrid, Head(todo)) : CrawlEntryAs(o)
    /\ UNCHANGED <<fs, pre, ixvars, colvars, thrvars>>

\* The unindex pass ends as r; crawl_once returns and its caller commits.
CrawlUnindexAs(r) ==
    IF r.exc # "none"
    THEN Aborted
    ELSE /\ cat' = r.st
         /\ db' = r.st
         /\ pc' = "idle"
         /\ last' = "returned"
         /\ forgotten' = forgotten \cup (cat.rids \ r.st.rids)
         /\ UNCHANGED todo

\* The unindex pass finds a path to unindex.
Unindexes(c) == \E p \in DOMAIN c.ridtimes : ~Exists(p)

\* What the unindex pass records: whether forget was called, and the pass.
UnindexNoted ==
    /\ issued' = (issued \/ (DOMAIN cat.indices # {} /\ Unindexes(cat)))
    /\ order' = IF Unindexes(cat) THEN Passed(order, "unindex") ELSE order

\* crawl_once with the unindex pass run at any point of the walk, and again
\* at its end.
CrawlUnindexEarly ==
    /\ pc = "walk"
    /\ UnindexNoted
    /\ IF todo = << >> \/ Unindex(cat).exc # "none"
       THEN CrawlUnindexAs(Unindex(cat))
       ELSE /\ cat' = Unindex(cat).st
            /\ UNCHANGED <<db, pc, todo, last, forgotten>>
    /\ UNCHANGED <<fs, nextrid, i, pre, alloc, ixvars, colvars, thrvars>>

\* The unindex pass, the return of crawl_once and the caller's commit.
CrawlUnindex ==
    /\ pc = "walk"
    /\ todo = << >>
    /\ UnindexNoted
    /\ CrawlUnindexAs(Unindex(cat))
    /\ UNCHANGED <<fs, nextrid, i, pre, alloc, ixvars, colvars, thrvars>>

Next ==
    \/ \E p \in AllPaths, t \in 1..MaxTime : Create(p, t)
    \/ \E p \in AllPaths, t \in 1..MaxTime : Touch(p, t)
    \/ \E p \in AllPaths : Delete(p)
    \/ Restart
    \/ CrawlBegin
    \/ CrawlEntry
    \/ CrawlUnindex

(***************************************************************************)
(* An index driven directly: any sequence of learn and forget calls.       *)
(* op records the last call: its name, rid and exception, the index as it  *)
(* was before the last learn, whether that learn was given a rid the index *)
(* did not hold, and (pair) whether this call is the forget that directly  *)
(* follows such a learn of the same rid.                                   *)
(***************************************************************************)
IxRids == 1..MaxIxRid

OpInit(st) ==
    [name |-> "init", rid |-> 0, value |-> <<>>, exc |-> "none", fresh |-> FALSE,
     pair |-> FALSE, before |-> st, none |-> FALSE, result |-> {}]

OpLearn(st, rid, value, exc, fresh) ==
    [name |-> "learn", rid |-> rid, value |-> value, exc |-> exc, fresh |-> fresh,
     pair |-> FALSE, before |-> st, none |-> FALSE, result |-> {}]

OpForget(rid, exc) ==
    [name |-> "forget", rid |-> rid, value |-> op.value, exc |-> exc, fresh |-> FALSE,
     pair |-> (op.name = "learn" /\ op.rid = rid /\ op.fresh /\ op.exc = "none"),
     before |-> op.before, none |-> FALSE, result |-> {}]

\* A search was called with arg and ended as r.
OpSearch(name, arg, r) ==
    [name |-> name, rid |-> 0, value |-> arg, exc |-> r.exc, fresh |-> FALSE,
     pair |-> FALSE, before |-> op.before, none |-> r.none, result |-> r.rids]

\* What is known to be stored once learn(rid, value) has ended with exc.
Unlearned(rid) == { q \in learned : q[1] # rid }

Learned(rid, value, exc) ==
    IF exc = "none" THEN Unlearned(rid) \cup {<<rid, value>>} ELSE Unlearned(rid)

\* The string values handed to String.learn.
InputChars == {"A", "a", "b"}
StrInputs == UNION { [1..n -> InputChars] : n \in 0..MaxLen }

StringInit ==
    /\ \E cs \in BOOLEAN : ix = StringReset(cs)
    /\ op = OpInit(ix)
    /\ nops = 0
    /\ learned = {}
    /\ CatalogIdle
    /\ CollectionIdle
    /\ CrawlerIdle

DoStringLearn(rid, value) ==
    /\ nops < MaxOps
    /\ LET r == StringLearn(ix, rid, value)
       IN /\ ix' = r.st
          /\ op' = OpLearn(ix, rid, value, r.exc,
                           rid \notin DOMAIN ix.rids /\ rid \notin StringHeld(ix))
          /\ learned' = Learned(rid, value, r.exc)
    /\ nops' = nops + 1
    /\ UNCHANGED <<catvars, colvars, thrvars>>

DoStringForget(rid) ==
    /\ nops < MaxOps
    /\ LET r == StringForget(ix, rid)
       IN /\ ix' = r.st
          /\ op' = OpForget(rid, r.exc)
          /\ learned' = Unlearned(rid)
    /\ nops' = nops + 1
    /\ UNCHANGED <<catvars, colvars, thrvars>>

StringNext ==
    \/ \E rid \in IxRids, value \in StrInputs \cup {NotAString} : DoStringLearn(rid, value)
    \/ \E rid \in IxRids : DoStringForget(rid)

\* The values handed to Enumeration.learn.
EnumInputs == EnumAllowed \cup { <<"x">>, NoneValue }

EnumerationInit ==
    /\ \E default \in {NoDefault, <<"d">>} : ix = EnumerationReset(EnumAllowed, default)
    /\ op = OpInit(ix)
    /\ nops = 0
    /\ learned = {}
    /\ CatalogIdle
    /\ CollectionIdle
    /\ CrawlerIdle

DoEnumerationLearn(rid, value) ==
    /\ nops < MaxOps
    /\ LET r == EnumerationLearn(ix, rid, value)
       IN /\ ix' = r.st
          /\ op' = OpLearn(ix, rid, value, r.exc,
                           rid \notin DOMAIN ix.values /\ rid \notin EnumerationHeld(ix))
          /\ learned' = Learned(rid, value, r.exc)
    /\ nops' = nops + 1
    /\ UNCHANGED <<catvars, colvars, thrvars>>

\* index.forget(rid), as Catalog.crawl_once calls it.
DoEnumerationForget(rid) ==
    /\ nops < MaxOps
    /\ LET r == EnumerationForget(ix, <<rid>>)
       IN /\ ix' = r.st
          /\ op' = OpForget(rid, r.exc)
          /\ learned' = Unlearned(rid)
    /\ nops' = nops + 1
    /\ UNCHANGED <<catvars, colvars, thrvars>>

\* index.forget(rid, value), the call the signature asks for.
DoEnumerationForget2(rid, value) ==
    /\ nops < MaxOps
    /\ LET r == EnumerationForget(ix, <<rid, value>>)
       IN /\ ix' = r.st
          /\ op' = OpForget(rid, r.exc)
          /\ learned' = Unlearned(rid)
    /\ nops' = nops + 1
    /\ UNCHANGED <<catvars, colvars, thrvars>>

EnumerationNext ==
    \/ \E rid \in IxRids, value \in EnumInputs : DoEnumerationLearn(rid, value)
    \/ \E rid \in IxRids : DoEnumerationForget(rid)
    \/ \E rid \in IxRids, value \in EnumInputs : DoEnumerationForget2(rid, value)

\* The values handed to Path.learn: "", "/", "/a", "/a/b", "/A", "/a/" and "a".
PathInputs ==
    { <<>>, <<"/">>, <<"/", "a">>, <<"/", "a", "/", "b">>, <<"/", "A">>,
      <<"/", "a", "/">>, <<"a">>, <<"/", "a", "/", "b", "/", "c">> }

\* The arguments handed to the searches of a Path index: the paths "/", "/a",
\* "/A", "/b", "/a/b" and "/a/b/c", and "/a" with the limits "0:1", "0:2",
\* "0:3", "1:", "1:2", ":1", "2:1", "x:1", "-1:2", "1" and "0:1 2".
SearchPaths ==
    { <<"/">>, <<"/", "a">>, <<"/", "A">>, <<"/", "b">>, <<"/", "a", "/", "b">>,
      <<"/", "a", "/", "b", "/", "c">> }

SearchLimits ==
    { <<"0", ":", "1">>, <<"0", ":", "2">>, <<"0", ":", "3">>, <<"1", ":">>,
      <<"1", ":", "2">>, <<":", "1">>, <<"2", ":", "1">>, <<"x", ":", "1">>,
      <<"-", "1", ":", "2">>, <<"1">>, <<"0", ":", "1", " ", "2">> }

SearchArgs == SearchPaths \cup { <<"/", "a", " ">> \o l : l \in SearchLimits }

PathInit ==
    /\ \E cs \in BOOLEAN : ix = PathReset(cs)
    /\ op = OpInit(ix)
    /\ nops = 0
    /\ learned = {}
    /\ CatalogIdle
    /\ CollectionIdle
    /\ CrawlerIdle

DoPathLearn(rid, value) ==
    /\ nops < MaxOps
    /\ LET r == PathLearn(ix, rid, value)
       IN /\ ix' = r.st
          /\ op' = OpLearn(ix, rid, value, r.exc,
                           rid \notin DOMAIN ix.rids /\ rid \notin PathHeld(ix))
          /\ learned' = Learned(rid, value, r.exc)
    /\ nops' = nops + 1
    /\ UNCHANGED <<catvars, colvars, thrvars>>

DoPathForget(rid) ==
    /\ nops < MaxOps
    /\ LET r == PathForget(ix, rid)
       IN /\ ix' = r.st
          /\ op' = OpForget(rid, r.exc)
          /\ learned' = Unlearned(rid)
    /\ nops' = nops + 1
    /\ UNCHANGED <<catvars, colvars, thrvars>>

\* index.below(arg), the call a Collection makes for 'path below <arg>'.
DoPathBelow(arg) ==
    /\ nops < MaxOps
    /\ op' = OpSearch("below", arg, PathBelow(ix, arg))
    /\ nops' = nops + 1
    /\ UNCHANGED <<ix, learned>>
    /\ UNCHANGED <<catvars, colvars, thrvars>>

\* index.above(arg), the call a Collection makes for 'path above <arg>'.
DoPathAbove(arg) ==
    /\ nops < MaxOps
    /\ op' = OpSearch("above", arg, PathAbove(ix, arg))
    /\ nops' = nops + 1
    /\ UNCHANGED <<ix, learned>>
    /\ UNCHANGED <<catvars, colvars, thrvars>>

PathNext ==
    \/ \E rid \in IxRids, value \in PathInputs \cup {NotAString} : DoPathLearn(rid, value)
    \/ \E rid \in IxRids : DoPathForget(rid)
    \/ \E arg \in SearchArgs : DoPathBelow(arg)
    \/ \E arg \in SearchArgs : DoPathAbove(arg)

\* The index driven directly is not part of the crawl.
IxIdle ==
    /\ ix = EmptyMap
    /\ op = OpInit(EmptyMap)
    /\ nops = 0
    /\ learned = {}

Init == CatalogStart /\ IxIdle /\ CollectionIdle /\ CrawlerIdle

(***************************************************************************)
(* Collection: constraints in disjunctive normal form over the searches    *)
(* of the catalog's indices, with a limit and a sort.                      *)
(***************************************************************************)
\* The names of the installed indices, as the strings a constraint spells.
IndexWords ==
    [name |-> <<"n", "a", "m", "e">>, kind |-> <<"k", "i", "n", "d">>,
     path |-> <<"p", "a", "t", "h">>, ext |-> <<"e", "x", "t">>,
     raw |-> <<"r", "a", "w">>]

\* catalog.indices.get(word, None): the installed name a word spells, if any.
Installed(c, word) == { n \in DOMAIN c.indices : IndexWords[n] = word }

\* The names parse and validate know searches by.
SearchWords ==
    [is |-> <<"i", "s">>, is_ |-> <<"i", "s", "_">>,
     in |-> <<"i", "n">>, in_ |-> <<"i", "n", "_">>,
     startswith |-> <<"s", "t", "a", "r", "t", "s", "w", "i", "t", "h">>,
     contains |-> <<"c", "o", "n", "t", "a", "i", "n", "s">>,
     endswith |-> <<"e", "n", "d", "s", "w", "i", "t", "h">>,
     below |-> <<"b", "e", "l", "o", "w">>, above |-> <<"a", "b", "o", "v", "e">>]

\* str.lstrip() of whitespace.
RECURSIVE LStrip(_)
LStrip(s) ==
    IF Len(s) > 0 /\ s[1] = " " THEN LStrip(Tail(s)) ELSE s

\* The first word of a string that starts with one, and what follows it.
WordEnd(s) ==
    IF \A n \in 1..Len(s) : s[n] # " " THEN Len(s)
    ELSE (CHOOSE m \in 1..Len(s) : s[m] = " " /\ \A k \in 1..(m - 1) : s[k] # " ") - 1

\* str.split(None, maxsplit): at most maxsplit words are split off, and the
\* remainder, stripped on the left only, is the last part.
RECURSIVE SplitMax(_, _)
SplitMax(s, maxsplit) ==
    LET t == LStrip(s)
    IN IF Len(t) = 0 THEN << >>
       ELSE IF maxsplit = 0 THEN <<t>>
       ELSE <<SubSeq(t, 1, WordEnd(t))>>
            \o SplitMax(SubSeq(t, WordEnd(t) + 1, Len(t)), maxsplit - 1)

\* The special case of parse: 'is' and 'in' name the methods is_ and in_.
SearchName(search) ==
    IF search = SearchWords.is THEN SearchWords.is_ ELSE IF search = SearchWords.in THEN SearchWords.in_ ELSE search

\* Collection.parse, given constraint.split(None, 2): (index, search, arg),
\* with None for the parts the constraint does not have.
ParseParts(parts) ==
    IF Len(parts) = 0 THEN [exc |-> "TypeError", query |-> <<None, None, None>>]
    ELSE IF Len(parts) = 1 THEN [exc |-> "none", query |-> <<parts[1], None, None>>]
    ELSE IF Len(parts) = 2
    THEN [exc |-> "none", query |-> <<parts[1], SearchName(parts[2]), None>>]
    ELSE [exc |-> "none", query |-> <<parts[1], SearchName(parts[2]), parts[3]>>]

\* Collection.parse
Parse(constraint) == ParseParts(SplitMax(constraint, 2))

\* The searches the index installed under a name has: is_, startswith,
\* contains and endswith of a String, is_ of an Enumeration, and below and
\* above besides those of a String for a Path.  The base class has none.
Searches(name) ==
    CASE name \in {"name", "ext"} -> {SearchWords.is_, SearchWords.startswith, SearchWords.contains, SearchWords.endswith}
      [] name = "kind" -> {SearchWords.is_}
      [] name = "path" -> {SearchWords.startswith, SearchWords.contains, SearchWords.endswith, SearchWords.below, SearchWords.above}
      [] OTHER -> {}

\* Collection.validate of a parsed constraint: the exception it raises.
\* getattr(index, None, None) raises TypeError.
Validate(c, query) ==
    IF query[1] = None THEN "none"
    ELSE IF Installed(c, query[1]) = {} THEN "ValueError"
    ELSE IF query[2] = None THEN "TypeError"
    ELSE IF \A n \in Installed(c, query[1]) : query[2] \notin Searches(n) THEN "ValueError"
    ELSE "none"

\* query = self.parse(constraint); call = self.validate(*query)
ParseValidate(c, constraint) ==
    LET p == Parse(constraint)
    IN IF p.exc # "none" THEN p ELSE [exc |-> Validate(c, p.query), query |-> p.query]

\* A search of a String index called by name.
StringCall(st, search, arg) ==
    IF arg = None
    THEN Raised(IF st.case_sensitive THEN "TypeError" ELSE "AttributeError")
    ELSE Returned(CASE search = SearchWords.is_ -> String_is(st, arg)
                    [] search = SearchWords.startswith -> String_startswith(st, arg)
                    [] search = SearchWords.contains -> String_contains(st, arg)
                    [] search = SearchWords.endswith -> String_endswith(st, arg))

\* call(arg): the bound method validate returned, applied at refresh.
Call(c, name, search, arg) ==
    CASE name = "kind" -> Returned(Enumeration_is(c.indices[name], arg))
      [] name = "path" /\ search \in {SearchWords.below, SearchWords.above} /\ arg = None
            -> Raised("AttributeError")
      [] name = "path" /\ search = SearchWords.below -> PathBelow(c.indices[name], arg)
      [] name = "path" /\ search = SearchWords.above -> PathAbove(c.indices[name], arg)
      [] OTHER -> StringCall(c.indices[name], search, arg)

\* A term of a grouping: (operation, query, call).  The call is the method
\* the query names, so the query stands for it.
Term(operation, query) == [operation |-> operation, query |-> query]

\* MATCH_ALL: the one term of a grouping that starts with all resources.
MatchAllTerm == Term("none", <<None, None, None>>)
MATCH_ALL == <<MatchAllTerm>>

\* call(arg) of a term.
TermCall(c, term) ==
    Call(c, CHOOSE n \in Installed(c, term.query[1]) : TRUE, term.query[2], term.query[3])

\* BTrees' intersection(c1, c2): None stands for "no constraint".
Intersection(r1, r2) ==
    IF r1.none THEN r2
    ELSE IF r2.none THEN r1
    ELSE Returned(r1.rids \cap r2.rids)

\* BTrees' difference(c1, c2)
Difference(r1, r2) ==
    IF r1.none THEN ReturnedNone
    ELSE IF r2.none THEN r1
    ELSE Returned(r1.rids \ r2.rids)

\* result = call(arg), or result = operation(result, call(arg)), where
\* call(arg) ended as called says.
TermApplied(term, result, called) ==
    IF called.exc # "none" \/ term.operation = "none" THEN called
    ELSE IF term.operation = "intersection" THEN Intersection(result, called)
    ELSE Difference(result, called)

\* One pass of the inner loop of refresh: the result after this term.
TermResult(c, term, result) ==
    IF term.operation = "none" /\ term.query[1] = None THEN Returned(c.rids)
    ELSE TermApplied(term, result, TermCall(c, term))

\* The inner loop of refresh, from term n on; an exception ends it.
RECURSIVE GroupingResult(_, _, _, _)
GroupingResult(c, grouping, n, result) ==
    IF n > Len(grouping) \/ result.exc # "none" THEN result
    ELSE GroupingResult(c, grouping, n + 1, TermResult(c, grouping[n], result))

\* The outer loop of refresh, from grouping n on: results collects the
\* results that are not None, and multiunion merges them.  RefreshStep is
\* one pass, grouping n having given result.
RECURSIVE RefreshFrom(_, _, _, _)
RECURSIVE RefreshStep(_, _, _, _, _)
RefreshStep(c, constraints, n, results, result) ==
    IF result.exc # "none" THEN [exc |-> result.exc, data |-> None]
    ELSE RefreshFrom(c, constraints, n + 1, results \cup result.rids)

RefreshFrom(c, constraints, n, results) ==
    IF n > Len(constraints) THEN [exc |-> "none", data |-> <<results>>]
    ELSE RefreshStep(c, constraints, n, results,
                     GroupingResult(c, constraints[n], 1, ReturnedNone))

\* self.data = results, which nothing assigns when a search raised.
Refreshed(col, r) ==
    IF r.exc # "none" THEN Raise(col, r.exc) ELSE Ok([col EXCEPT !.data = r.data])

\* Collection.refresh
Refresh(c, col) == Refreshed(col, RefreshFrom(c, col.constraints, 1, {}))

\* Collection.__init__ with sort and limit left at None; the constraint None
\* starts the one grouping with all resources.
CollectionInit(c, constraint) ==
    LET q == ParseValidate(c, constraint)
    IN IF constraint = NoneValue
       THEN Ok([made |-> TRUE, constraints |-> <<MATCH_ALL>>, limit |-> None,
                sort |-> None, data |-> None])
       ELSE IF q.exc # "none" THEN Raise(NoCollection, q.exc)
       ELSE Ok([made |-> TRUE, constraints |-> << <<Term("none", q.query)>> >>,
                limit |-> None, sort |-> None, data |-> None])

\* self.constraints[-1].append((operation, query, call))
AppendTerm(constraints, term) ==
    [constraints EXCEPT ![Len(constraints)] = Append(@, term)]

\* Collection.AND and Collection.NOT, which differ in the operation only.
Narrow(c, col, operation, constraint) ==
    LET q == ParseValidate(c, constraint)
    IN IF q.exc # "none" THEN Raise(col, q.exc)
       ELSE IF Len(col.constraints) = 0 THEN Raise(col, "IndexError")
       ELSE Ok([col EXCEPT !.constraints = AppendTerm(@, Term(operation, q.query))])

AND(c, col, constraint) == Narrow(c, col, "intersection", constraint)
NOT(c, col, constraint) == Narrow(c, col, "difference", constraint)

\* Collection.OR: the constraint '' starts the new grouping with everything.
OR(c, col, constraint) ==
    IF constraint = << >>
    THEN Ok([col EXCEPT !.constraints = Append(@, MATCH_ALL)])
    ELSE LET q == ParseValidate(c, constraint)
         IN IF q.exc # "none" THEN Raise(col, q.exc)
            ELSE Ok([col EXCEPT !.constraints = Append(@, <<Term("none", q.query)>>)])

\* getattr(self.collection, operator_)(constraint)
Constrain(c, col, operator, constraint) ==
    CASE operator = "AND" -> AND(c, col, constraint)
      [] operator = "NOT" -> NOT(c, col, constraint)
      [] operator = "OR" -> OR(c, col, constraint)

\* The values handed to the limit and sort setters: None, an int, a string,
\* or something that is neither.
IntValue(n) == [kind |-> "int", n |-> n, s |-> << >>]
StrValue(s) == [kind |-> "str", n |-> 0, s |-> s]
OtherValue == [kind |-> "other", n |-> 0, s |-> << >>]
NoValue == [kind |-> "None", n |-> 0, s |-> << >>]

\* The end of __set_limit without the test 'if value < 1'.
SetLimitIntAny(col, n) == Ok([col EXCEPT !.limit = <<n>>])

\* The end of __set_limit, once the value is an int.
SetLimitInt(col, n) ==
    IF n < 1 THEN Raise(col, "ValueError") ELSE Ok([col EXCEPT !.limit = <<n>>])

\* Collection.__set_limit
SetLimit(col, value) ==
    IF value.kind = "None" THEN Ok([col EXCEPT !.limit = None])
    ELSE IF value.kind = "str"
    THEN IF ~IsDigit(value.s) THEN Raise(col, "TypeError")
         ELSE SetLimitInt(col, ToInt(value.s))
    ELSE IF value.kind # "int" THEN Raise(col, "TypeError")
    ELSE SetLimitInt(col, value.n)

\* Collection.__del_limit
DelLimit(col) == [col EXCEPT !.limit = None]

\* getattr(index, 'sorted', None): the values of a String or a Path, the
\* rids of an Enumeration; the base class has no such attribute.
Sorted(c, name) ==
    CASE name \in {"name", "ext", "path"} -> <<c.indices[name].values>>
      [] name = "kind" -> <<c.indices[name].rids>>
      [] OTHER -> None

\* Collection.__set_sort
SetSort(c, col, value) ==
    IF value.kind = "None" THEN Ok([col EXCEPT !.sort = None])
    ELSE IF value.kind # "str" THEN Raise(col, "TypeError")
    ELSE IF Installed(c, value.s) = {} THEN Raise(col, "ValueError")
    ELSE IF \A n \in Installed(c, value.s) : Sorted(c, n) = None THEN Raise(col, "ValueError")
    ELSE Ok([col EXCEPT !.sort = <<CHOOSE n \in Installed(c, value.s) : TRUE>>])

\* Collection.__del_sort
DelSort(col) == [col EXCEPT !.sort = None]

\* if self.data is None: self.refresh()
Loaded(c, col) == IF col.data = None THEN Refresh(c, col) ELSE Ok(col)

\* Collection.__len__, once the data is loaded.
LenOf(col) ==
    IF col.limit # None /\ Cardinality(col.data[1]) > col.limit[1]
    THEN col.limit[1]
    ELSE Cardinality(col.data[1])

\* The rids of an IITreeSet in the order iteration yields them: ascending.
RECURSIVE Ascending(_)
Ascending(rids) ==
    IF rids = {} THEN << >>
    ELSE LET least == CHOOSE r \in rids : \A q \in rids : r <= q
         IN <<least>> \o Ascending(rids \ {least})

\* The keys of an OOBTree in the order iteritems yields them.
RECURSIVE KeysInOrder(_)
KeysInOrder(keys) ==
    IF keys = {} THEN << >>
    ELSE LET least == CHOOSE k \in keys : \A q \in keys \ {k} : StrLess(k, q)
         IN <<least>> \o KeysInOrder(keys \ {least})

\* The loop of __iter__ over the data of an unsorted collection: the length
\* of out is i, the resources yielded, and the loop breaks when i == self.limit.
RECURSIVE IterData(_, _, _)
IterData(rids, limit, out) ==
    IF Len(rids) = 0 \/ <<Len(out)>> = limit THEN out
    ELSE IterData(Tail(rids), limit, Append(out, rids[1]))

\* The inner loop without the test 'if rid in self.data'.
RECURSIVE IterRidsUnfiltered(_, _, _, _)
IterRidsUnfiltered(rids, data, limit, out) ==
    IF Len(rids) = 0 \/ <<Len(out)>> = limit THEN out
    ELSE IterRidsUnfiltered(Tail(rids), data, limit, Append(out, rids[1]))

\* The inner loop of __iter__ over the rids under one key of the sorted
\* view: it breaks when i == self.limit and yields the rids in self.data.
RECURSIVE IterRids(_, _, _, _)
IterRids(rids, data, limit, out) ==
    IF Len(rids) = 0 \/ <<Len(out)>> = limit THEN out
    ELSE IterRids(Tail(rids), data, limit,
                  IF rids[1] \in data THEN Append(out, rids[1]) ELSE out)

\* The outer loop of __iter__ over the items of the sorted view.
RECURSIVE IterSorted(_, _, _, _, _)
IterSorted(sorted, keys, data, limit, out) ==
    IF Len(keys) = 0 THEN out
    ELSE IterSorted(sorted, Tail(keys), data, limit,
                    IterRids(Ascending(sorted[keys[1]]), data, limit, out))

\* Collection.__iter__, once the data is loaded: the rids of the resources
\* yielded, in order.
IterOf(c, col) ==
    IF col.sort = None THEN IterData(Ascending(col.data[1]), col.limit, << >>)
    ELSE IterSorted(Sorted(c, col.sort[1])[1],
                    KeysInOrder(DOMAIN Sorted(c, col.sort[1])[1]),
                    col.data[1], col.limit, << >>)

\* The number of terms of a collection.
RECURSIVE NTerms(_)
NTerms(constraints) ==
    IF Len(constraints) = 0 THEN 0
    ELSE Len(constraints[1]) + NTerms(Tail(constraints))

\* self.ncollection = len(self.collection), after a refresh that ended as r
\* says: what update_collection raised and the length.
Updated(r) ==
    [st |-> r.st, exc |-> "none", upd |-> r.exc,
     out |-> IF r.exc = "none" THEN <<LenOf(r.st)>> ELSE << >>]

\* CLI.update_collection: refresh, then len.
UpdateCollection(c, col) == Updated(Refresh(c, col))

\* How a command of the shell ended that did not get to update_collection.
Handled(col, exc) == [st |-> col, exc |-> exc, upd |-> "none", out |-> << >>]

\* The end of do__constrain, the constraint method having ended as r says:
\* TypeError and ValueError are printed, and update_collection follows a
\* success.
CliConstrainEnd(c, col, r) ==
    IF r.exc # "none" THEN Handled(col, r.exc) ELSE UpdateCollection(c, r.st)

\* if self.collection.constraints[-1] == MATCH_ALL and operator_ == 'AND'
Trims(col, operator) ==
    col.constraints[Len(col.constraints)] = MATCH_ALL /\ operator = "AND"

\* self.collection.constraints = self.collection.constraints[:-1]
Trimmed(col, operator) ==
    IF Trims(col, operator)
    THEN [col EXCEPT !.constraints = SubSeq(@, 1, Len(@) - 1)]
    ELSE col

\* 'Add to collection' of do__constrain: a last grouping that is MATCH_ALL is
\* trimmed before an AND, which then goes in as an OR; an OR without a
\* constraint after such a grouping is skipped.
CliConstrainAdd(c, col, operator, constraint) ==
    IF Len(col.constraints) = 0 THEN Handled(col, "IndexError")
    ELSE IF col.constraints[Len(col.constraints)] = MATCH_ALL
            /\ operator = "OR" /\ constraint = << >>
    THEN UpdateCollection(c, col)
    ELSE CliConstrainEnd(c, Trimmed(col, operator),
                         Constrain(c, Trimmed(col, operator),
                                   IF Trims(col, operator) THEN "OR" ELSE operator,
                                   constraint))

\* CLI.do_AND, do_NOT and do_OR, through do__constrain: the line is split
\* into the operator and the constraint, and only OR may come without one.
CliConstrain(c, col, operator, line) ==
    IF Len(LStrip(line)) = 0 /\ operator # "OR" THEN Handled(col, "rejected")
    ELSE CliConstrainAdd(c, IF col.made THEN col ELSE CollectionInit(c, NoneValue).st,
                         operator, LStrip(line))

(***************************************************************************)
(* Driving a Collection over a crawled catalog.                            *)
(***************************************************************************)
\* What is recorded of a call: its name and argument, the exception it
\* raised, the exception update_collection raised after it, the collection
\* before it, and what it returned or yielded.
CallRecord(name, arg, exc, upd, out) ==
    [name |-> name, arg |-> arg, exc |-> exc, upd |-> upd, before |-> coll, out |-> out]

\* The catalog after a first crawl of the tree with every index installed:
\* rid 0 is the root, rid 1 the directory d, rid 2 the file c.
CollectionStart ==
    /\ fs = [p \in AllPaths |-> 1]
    /\ cat = Store(Store(Store(CatalogInit({"name", "kind", "path", "ext", "raw"}),
                               0, Root, 1).st,
                         1, PathJoin(Root, <<"d">>), 1).st,
                   2, PathJoin(PathJoin(Root, <<"d">>), <<"c">>), 1).st
    /\ db = cat
    /\ nextrid = <<3>>
    /\ pc = "idle"
    /\ todo = << >>
    /\ i = 0
    /\ last = "none"
    /\ pre = cat
    /\ issued = FALSE
    /\ alloc = NoAlloc
    /\ forgotten = {}
    /\ order = "none"
    /\ IxIdle
    /\ CollectionIdle
    /\ CrawlerIdle

\* The constraints tried: two that select resources, a path nothing is
\* indexed under, a limits specification that is not one, an index that is
\* not installed, a search the index does not have, and a lone index name.
KindIsD == IndexWords.kind \o <<" ">> \o SearchWords.is \o <<" ", "d">>
NameIsD == IndexWords.name \o <<" ">> \o SearchWords.is \o <<" ", "d">>
BelowUnknown == IndexWords.path \o <<" ">> \o SearchWords.below \o <<" ", "/", "z">>
BelowMalformed ==
    IndexWords.path \o <<" ">> \o SearchWords.below \o <<" ", "/", "r", " ", "x", ":", "1">>
UnknownIndex == <<"b", "o", "g", "u", "s", " ">> \o SearchWords.is \o <<" ", "d">>
UnknownSearch == IndexWords.kind \o <<" ", "z", "z", " ", "d">>
LoneIndex == IndexWords.kind

Accepted == {KindIsD, NameIsD, BelowUnknown, BelowMalformed}
Rejected == {UnknownIndex, UnknownSearch, LoneIndex}

\* A call of the collection has ended as r says.
CollectionCalled(name, arg, r) ==
    /\ coll' = r.st
    /\ cop' = CallRecord(name, arg, r.exc, "none", << >>)
    /\ UNCHANGED <<catvars, ixvars, thrvars>>

\* Collection(constraint)
DoCollection(constraint) ==
    /\ ~coll.made
    /\ CollectionCalled("Collection", constraint, CollectionInit(cat, constraint))

\* collection.AND(constraint), collection.NOT(constraint) and
\* collection.OR(constraint) of a collection of fewer than max terms.
DoConstrain(operator, constraint, max) ==
    /\ coll.made
    /\ NTerms(coll.constraints) < max
    /\ CollectionCalled(operator, constraint, Constrain(cat, coll, operator, constraint))

\* collection.refresh()
DoRefresh ==
    /\ coll.made
    /\ CollectionCalled("refresh", << >>, Refresh(cat, coll))

CollectionNext ==
    \/ \E constraint \in Accepted \cup Rejected \cup {NoneValue} : DoCollection(constraint)
    \/ \E operator \in {"AND", "NOT", "OR"}, constraint \in Accepted \cup Rejected \cup {<< >>} :
           DoConstrain(operator, constraint, MaxTerms)
    \/ DoRefresh

\* The limits tried: None, ints and strings on both sides of 1, and a value
\* that is neither an int nor a string.
LimitValues ==
    {NoValue, IntValue(-1), IntValue(0), IntValue(2),
     StrValue(<<"0">>), StrValue(<<"1">>), StrValue(<<"-", "1">>), OtherValue}

\* The sorts tried: None, the index of the names, the index only files are
\* in, the index without a sorted view, a name that is not installed, and a
\* value that is not a string.
SortValues ==
    {NoValue, OtherValue, StrValue(<<"b", "o", "g", "u", "s">>),
     StrValue(IndexWords.name), StrValue(IndexWords.ext), StrValue(IndexWords.raw)}

\* collection.limit = value
DoSetLimit(value) ==
    /\ coll.made
    /\ CollectionCalled("limit", value, SetLimit(coll, value))

\* del collection.limit
DoDelLimit ==
    /\ coll.made
    /\ CollectionCalled("del limit", NoValue, Ok(DelLimit(coll)))

\* collection.sort = value
DoSetSort(value) ==
    /\ coll.made
    /\ CollectionCalled("sort", value, SetSort(cat, coll, value))

\* del collection.sort
DoDelSort ==
    /\ coll.made
    /\ CollectionCalled("del sort", NoValue, Ok(DelSort(coll)))

\* The same, refresh narrowing the rids of the catalog in place instead of
\* assigning the merged results to self.data alone.
CollectionReadNarrowing(name, r, out) ==
    /\ coll' = r.st
    /\ cop' = CallRecord(name, << >>, r.exc, "none", IF r.exc = "none" THEN out ELSE << >>)
    /\ cat' = IF r.exc = "none" THEN [cat EXCEPT !.rids = r.st.data[1]] ELSE cat
    /\ UNCHANGED <<fs, db, nextrid, pc, todo, i, last, pre, issued, alloc, forgotten, order,
                   ixvars, thrvars>>

\* A call that loads the data if need be and returns or yields out.
CollectionRead(name, r, out) ==
    /\ coll' = r.st
    /\ cop' = CallRecord(name, << >>, r.exc, "none", IF r.exc = "none" THEN out ELSE << >>)
    /\ UNCHANGED <<catvars, ixvars, thrvars>>

\* len(collection), the data having been loaded as r says.
LenRead(r) == CollectionRead("len", r, <<LenOf(r.st)>>)

DoLen ==
    /\ coll.made
    /\ LenRead(Loaded(cat, coll))

\* list(collection), the iteration run to its end, the data having been
\* loaded as r says.
IterRead(r) == CollectionRead("iter", r, IterOf(cat, r.st))

DoIter ==
    /\ coll.made
    /\ IterRead(Loaded(cat, coll))

ListingNext ==
    \/ \E constraint \in Accepted \cup {NoneValue} : DoCollection(constraint)
    \/ \E operator \in {"AND", "NOT", "OR"}, constraint \in Accepted :
           DoConstrain(operator, constraint, MaxListTerms)
    \/ \E value \in LimitValues : DoSetLimit(value)
    \/ DoDelLimit
    \/ \E value \in SortValues : DoSetSort(value)
    \/ DoDelSort
    \/ DoLen
    \/ DoIter

\* A command of the shell has ended as r says.
ShellCalled(name, arg, r) ==
    /\ coll' = r.st
    /\ cop' = CallRecord(name, arg, r.exc, r.upd, r.out)
    /\ UNCHANGED <<catvars, ixvars, thrvars>>

\* The shell commands AND, NOT and OR.
DoCliConstrain(operator, line) ==
    /\ NTerms(coll.constraints) < MaxShellTerms
    /\ ShellCalled("do_" \o operator, line, CliConstrain(cat, coll, operator, line))

ShellNext ==
    \E operator \in {"AND", "NOT", "OR"}, line \in Accepted \cup Rejected \cup {<< >>} :
        DoCliConstrain(operator, line)

(***************************************************************************)
(* The crawler thread.  start_crawling makes the flag STOP_CRAWLING and    *)
(* starts a thread on Catalog.crawl:                                       *)
(*     while not self.STOP_CRAWLING.isSet():                               *)
(*         try: self.crawl_once(); transaction.commit()                    *)
(*         finally: transaction.abort()                                    *)
(*         time.sleep(0.1)                                                 *)
(* crawler.at is "test" at the test of the loop, "call" inside the try     *)
(* statement, "sleep" in time.sleep, "done" once the loop has ended and    *)
(* "dead" once an exception has left crawl, which has no except clause.    *)
(* The filesystem changes between the calls of crawl_once, and paths       *)
(* vanish during the walk.                                                 *)
(***************************************************************************)
\* The indices installed where the crawler thread runs: none; an Enumeration
\* that rejects the kind of a file; an Enumeration with a String for an
\* attribute that directories lack.
CrawlerInstallations == { {}, {"dirs"}, {"kind", "ext"} }

CrawlerStart == CatalogStartWith(CrawlerInstallations) /\ IxIdle /\ CollectionIdle /\ CrawlerIdle

\* The same, every path that exists having the one mtime.
CrawlerFairStart == CrawlerStart /\ \A p \in AllPaths : fs[p] <= 1

At(place) == [at |-> place, exc |-> "none"]

\* The statement inside the try of Catalog.crawl ended with exc; when that
\* is an exception, the finally clause runs and the exception leaves crawl.
Crawled(exc, place) == IF exc = "none" THEN At(place) ELSE [at |-> "dead", exc |-> exc]

\* Catalog.start_crawling
StartCrawling ==
    /\ crawler.at = "none"
    /\ stop' = "clear"
    /\ crawler' = At("test")
    /\ UNCHANGED <<since, later, catvars, ixvars, colvars>>

\* Catalog.stop_crawling
StopCrawling ==
    /\ stop = "clear"
    /\ stop' = "set"
    /\ UNCHANGED <<crawler, since, later, catvars, ixvars, colvars>>

\* The loop never tests the flag: `while 1`.
CrawlerTestNever ==
    /\ crawler.at = "test"
    /\ crawler' = At("call")
    /\ UNCHANGED <<stop, since, later, catvars, ixvars, colvars>>

\* `while not self.STOP_CRAWLING.isSet()`
CrawlerTest ==
    /\ crawler.at = "test"
    /\ crawler' = At(IF stop = "set" THEN "done" ELSE "call")
    /\ UNCHANGED <<stop, since, later, catvars, ixvars, colvars>>

\* The thread calls crawl_once.
CrawlerBegin ==
    /\ crawler.at = "call"
    /\ CrawlOnceCalled
    /\ \E o \in AddUpdate(cat, nextrid, Root) :
           CrawlBeginAs(Root, o) /\ crawler' = Crawled(o.exc, "call")
    /\ UNCHANGED <<fs, stop, since, later, ixvars, colvars>>

\* One pass of the add/update loop in the thread; OSError is caught there.
CrawlerEntry ==
    /\ crawler.at = "call"
    /\ pc = "walk"
    /\ todo # << >>
    /\ IF Ignore(Head(todo))
       THEN CrawlEntryIgnored /\ UNCHANGED crawler
       ELSE \E o \in AddUpdate(cat, nextrid, Head(todo)) :
                CrawlEntryAs(o)
                /\ crawler' = Crawled(IF o.exc = "OSError" THEN "none" ELSE o.exc, "call")
    /\ UNCHANGED <<fs, pre, stop, since, later, ixvars, colvars>>

\* The unindex pass in the thread; when crawl_once returns, crawl commits
\* and goes to sleep.
CrawlerUnindex ==
    /\ crawler.at = "call"
    /\ pc = "walk"
    /\ todo = << >>
    /\ UnindexNoted
    /\ CrawlUnindexAs(Unindex(cat))
    /\ crawler' = Crawled(Unindex(cat).exc, "sleep")
    /\ UNCHANGED <<fs, nextrid, i, pre, alloc, stop, since, later, ixvars, colvars>>

\* time.sleep(0.1) returns.
CrawlerWake ==
    /\ crawler.at = "sleep"
    /\ crawler' = At("test")
    /\ UNCHANGED <<stop, since, later, catvars, ixvars, colvars>>

\* A path is removed from the disk while crawl_once walks the tree.
Vanish(p) ==
    /\ pc = "walk"
    /\ Exists(p)
    /\ \A q \in Under(p) : ~Exists(q)
    /\ fs' = [fs EXCEPT ![p] = 0]
    /\ UNCHANGED <<cat, db, nextrid, pc, todo, i, last, pre, issued, alloc, forgotten, order,
                   ixvars, colvars, thrvars>>

\* The threads a query is made from: the one that called start_crawling,
\* and any other.
QueryThreads == {"starter", "other"}

\* The connection whose catalog object a thread works on, named after the
\* thread that opened it.  get_catalog opens one connection per calling
\* thread (local.conn); the crawler thread never calls it: its target is the
\* bound method self.crawl of the object start_crawling was called on, the
\* one of the starter's connection.
ConnectionOf(thread) == IF thread = "crawler" THEN "starter" ELSE thread

\* dewey.get_catalog() in a query thread: the catalog object of the
\* connection of that thread.  dewey.start_crawling calls start_crawling on
\* the object of the caller's connection, and the crawler thread runs
\* self.crawl on that object: the starter reads the object the crawler
\* mutates.  Any other thread opens a connection of its own, which shows the
\* catalog as committed.
GetCatalog(thread) == IF ConnectionOf(thread) = ConnectionOf("crawler") THEN cat ELSE db

\* A catalog rooted at a directory that ignore matches: Catalog(root='/r/_x').
HiddenRoot == PathJoin(Root, <<"_", "x">>)

\* crawl_once of the catalog rooted there is called.
HiddenCrawlBegin ==
    /\ CrawlOnceCalled
    /\ \E o \in AddUpdate(cat, nextrid, HiddenRoot) : CrawlBeginAs(HiddenRoot, o)
    /\ UNCHANGED <<fs, ixvars, colvars, thrvars>>

\* The directory holds nothing, so the add/update loop has no pass to make.
HiddenNext ==
    \/ \E p \in AllPaths, t \in 1..MaxTime : Create(p, t)
    \/ \E p \in AllPaths, t \in 1..MaxTime : Touch(p, t)
    \/ \E p \in AllPaths : Delete(p)
    \/ HiddenCrawlBegin
    \/ CrawlUnindex

(***************************************************************************)
(* The checkpoints of crawl_once over a directory of many entries.  Of the *)
(* catalog only the count of what awaits a commit is kept: since is the    *)
(* number of entries _add_update was called on (the root counted) since    *)
(* the last transaction.commit().  pc is "unindex" during the unindex      *)
(* pass.                                                                   *)
(***************************************************************************)
\* A listing of n entries, every m-th of which ignore matches (none when m
\* is 0).
Listing(n, m) ==
    [k \in 1..n |-> IF m > 0 /\ k % m = 0 THEN PathJoin(Root, <<"_", "x">>)
                    ELSE PathJoin(Root, <<"d">>)]

CheckpointStart == CatalogIdle /\ IxIdle /\ CollectionIdle /\ CrawlerIdle

\* crawl_once is called: self._add_update(self.root); i = 0; os.walk begins.
ListingBegin(n, m) ==
    /\ pc = "idle"
    /\ since' = since + 1
    /\ i' = 0
    /\ todo' = Listing(n, m)
    /\ pc' = "walk"
    /\ UNCHANGED <<fs, cat, db, nextrid, last, pre, issued, alloc, forgotten, order,
                   crawler, stop, later, ixvars, colvars>>

\* One pass of the loop: an ignored path is skipped; any other is handed to
\* _add_update (an OSError is caught), the checkpoint is tested, i += 1.
ListingEntry ==
    /\ pc = "walk"
    /\ todo # << >>
    /\ todo' = Tail(todo)
    /\ IF Ignore(Head(todo))
       THEN UNCHANGED <<i, since>>
       ELSE /\ since' = IF Checkpoint(i) THEN 0 ELSE since + 1
            /\ i' = i + 1
    /\ UNCHANGED <<fs, cat, db, nextrid, pc, last, pre, issued, alloc, forgotten, order,
                   crawler, stop, later, ixvars, colvars>>

\* The loop is over and the unindex pass runs; it calls no commit.
ListingUnindex ==
    /\ pc = "walk"
    /\ todo = << >>
    /\ pc' = "unindex"
    /\ UNCHANGED <<fs, cat, db, nextrid, todo, i, last, pre, issued, alloc, forgotten, order,
                   thrvars, ixvars, colvars>>

\* crawl_once returns and its caller commits.
ListingReturn ==
    /\ pc = "unindex"
    /\ pc' = "idle"
    /\ since' = 0
    /\ UNCHANGED <<fs, cat, db, nextrid, todo, i, last, pre, issued, alloc, forgotten, order,
                   crawler, stop, later, ixvars, colvars>>

\* An exception leaves crawl_once and its caller aborts: nothing awaits a
\* commit any more.
ListingAbort ==
    /\ pc \in {"walk", "unindex"}
    /\ pc' = "idle"
    /\ todo' = << >>
    /\ since' = 0
    /\ UNCHANGED <<fs, cat, db, nextrid, i, last, pre, issued, alloc, forgotten, order,
                   crawler, stop, later, ixvars, colvars>>

CheckpointNext ==
    \/ \E n \in 0..MaxEntries, m \in {0, 1, 3} : ListingBegin(n, m)
    \/ ListingEntry
    \/ ListingUnindex
    \/ ListingReturn
    \/ ListingAbort

\* The steps of the crawler thread.
CrawlerRuns == CrawlerTest \/ CrawlerBegin \/ CrawlerEntry \/ CrawlerUnindex \/ CrawlerWake

\* The crawler thread over a tree in which nothing is created.
CrawlerFairNext ==
    \/ \E p \in AllPaths : Vanish(p)
    \/ StartCrawling
    \/ StopCrawling
    \/ CrawlerTest
    \/ CrawlerBegin
    \/ CrawlerEntry
    \/ CrawlerUnindex
    \/ CrawlerWake

CrawlerNext ==
    \/ \E p \in AllPaths, t \in 1..MaxTime : Create(p, t)
    \/ \E p \in AllPaths : Delete(p)
    \/ \E p \in AllPaths : Vanish(p)
    \/ StartCrawling
    \/ StopCrawling
    \/ CrawlerTest
    \/ CrawlerBegin
    \/ CrawlerEntry
    \/ CrawlerUnindex
    \/ CrawlerWake

(***************************************************************************)
(* start_crawling and stop_crawling called any number of times.  Each call *)
(* of start_crawling assigns a new Event to STOP_CRAWLING and starts a new *)
(* thread on Catalog.crawl, whose loop reads self.STOP_CRAWLING anew at    *)
(* every test: stop is the Event the attribute holds now.  Of crawl_once   *)
(* only its beginning and its end are kept: a thread is at "call" from the *)
(* call of crawl_once until crawl_once and the commit after it have        *)
(* returned or raised.                                                     *)
(***************************************************************************)
\* The threads started after the first, in the order of the calls.
LaterThreads == 2..MaxThreads

\* start_crawling is called again, whatever the thread of an earlier call
\* is doing.
StartAgain(k) ==
    /\ crawler.at # "none"
    /\ later[k].at = "none"
    /\ \A j \in LaterThreads : j < k => later[j].at # "none"
    /\ stop' = "clear"
    /\ later' = [later EXCEPT ![k] = At("test")]
    /\ UNCHANGED <<crawler, since, catvars, ixvars, colvars>>

\* The try statement of crawl in the first thread ends: crawl_once and the
\* commit have returned, or an exception leaves crawl.
CrawlerReturns ==
    /\ crawler.at = "call"
    /\ \E exc \in {"none", "Exception"} : crawler' = Crawled(exc, "sleep")
    /\ UNCHANGED <<stop, since, later, catvars, ixvars, colvars>>

\* `while not self.STOP_CRAWLING.isSet()` in a later thread.
LaterTest(k) ==
    /\ later[k].at = "test"
    /\ later' = [later EXCEPT ![k] = At(IF stop = "set" THEN "done" ELSE "call")]
    /\ UNCHANGED <<crawler, stop, since, catvars, ixvars, colvars>>

\* The try statement ends in a later thread.
LaterReturns(k) ==
    /\ later[k].at = "call"
    /\ \E exc \in {"none", "Exception"} :
           later' = [later EXCEPT ![k] = Crawled(exc, "sleep")]
    /\ UNCHANGED <<crawler, stop, since, catvars, ixvars, colvars>>

\* time.sleep(0.1) returns in a later thread.
LaterWake(k) ==
    /\ later[k].at = "sleep"
    /\ later' = [later EXCEPT ![k] = At("test")]
    /\ UNCHANGED <<crawler, stop, since, catvars, ixvars, colvars>>

\* The threads that are executing crawl_once.
InCrawlOnce ==
    (IF crawler.at = "call" THEN {1} ELSE {}) \cup { k \in LaterThreads : later[k].at = "call" }

RestartStart == CatalogIdle /\ IxIdle /\ CollectionIdle /\ CrawlerIdle

RestartNext ==
    \/ StartCrawling
    \/ \E k \in LaterThreads : StartAgain(k)
    \/ StopCrawling
    \/ CrawlerTest
    \/ CrawlerReturns
    \/ CrawlerWake
    \/ \E k \in LaterThreads : LaterTest(k)
    \/ \E k \in LaterThreads : LaterReturns(k)
    \/ \E k \in LaterThreads : LaterWake(k)

(***************************************************************************)
(* Collections made, constrained and read while the tree changes and       *)
(* crawl_once runs between the calls, with a String under "name" and an    *)
(* Enumeration under "kind" installed: rid 0 is the root, rid 1 the        *)
(* directory d.                                                            *)
(***************************************************************************)
QueryStart ==
    /\ fs = [p \in AllPaths |-> IF p \in {Root, PathJoin(Root, <<"d">>)} THEN 1 ELSE 0]
    /\ cat = Store(Store(CatalogInit({"name", "kind"}), 0, Root, 1).st,
                   1, PathJoin(Root, <<"d">>), 1).st
    /\ db = cat
    /\ nextrid = <<2>>
    /\ pc = "idle"
    /\ todo = << >>
    /\ i = 0
    /\ last = "none"
    /\ pre = cat
    /\ issued = FALSE
    /\ alloc = NoAlloc
    /\ forgotten = {}
    /\ order = "none"
    /\ IxIdle
    /\ CollectionIdle
    /\ CrawlerIdle

QueryNext ==
    \/ \E p \in AllPaths, t \in 1..MaxTime : Create(p, t)
    \/ CrawlBegin
    \/ CrawlEntry
    \/ CrawlUnindex
    \/ \E constraint \in {NoneValue, KindIsD} : DoCollection(constraint)
    \/ \E operator \in {"AND", "NOT", "OR"} : DoConstrain(operator, NameIsD, MaxListTerms)
    \/ DoRefresh
    \/ DoLen
    \/ DoIter

Spec == Init /\ [][Next]_vars

SpecString == StringInit /\ [][StringNext]_vars
SpecEnumeration == EnumerationInit /\ [][EnumerationNext]_vars
SpecPath == PathInit /\ [][PathNext]_vars
SpecCollection == CollectionStart /\ [][CollectionNext]_vars
SpecListing == CollectionStart /\ [][ListingNext]_vars
SpecQuery == QueryStart /\ [][QueryNext]_vars
SpecRestart == RestartStart /\ [][RestartNext]_vars
SpecShell == CollectionStart /\ [][ShellNext]_vars
SpecCrawler == CrawlerStart /\ [][CrawlerNext]_vars
SpecCheckpoint == CheckpointStart /\ [][CheckpointNext]_vars
SpecHiddenRoot == CrawlerStart /\ [][HiddenNext]_vars
\* The scheduler runs the crawler thread whenever it can take a step.
SpecCrawlerFair == CrawlerFairStart /\ [][CrawlerFairNext]_vars /\ WF_vars(CrawlerRuns)

(***************************************************************************)
(* Claims about the catalog and the crawl, checked under Spec.             *)
(***************************************************************************)
\* The paths under the root that exist and are not ignored.
Wanted == { p \in AllPaths : Exists(p) /\ ~Ignore(p) }

Rid(c, p) == c.ridtimes[p][1]

\* C1: when a crawl_once has returned, every path under the root that is not
\* ignored is a key of ridtimes if and only if it exists on disk.
C1_RidtimesMatchDisk ==
    last = "returned" =>
        \A p \in AllPaths : ~Ignore(p) => (p \in DOMAIN cat.ridtimes <=> Exists(p))

\* A crawl_once has returned that unindexed a removed path and left others
\* indexed, while an ignored path exists.
C1_Witness ==
    /\ last = "returned"
    /\ \E p \in DOMAIN pre.ridtimes : ~Exists(p) /\ p \notin DOMAIN cat.ridtimes
    /\ DOMAIN cat.ridtimes # {}
    /\ \E p \in AllPaths : Exists(p) /\ Ignore(p)

OneToOne(c) ==
    /\ \A rid \in c.rids :
        /\ rid \in DOMAIN c.resources
        /\ Cardinality({ p \in DOMAIN c.ridtimes : Rid(c, p) = rid }) = 1
    /\ \A p \in DOMAIN c.ridtimes :
        Rid(c, p) \in c.rids /\ Rid(c, p) \in DOMAIN c.resources
    /\ Cardinality(DOMAIN c.resources) = Cardinality(c.rids)
    /\ Cardinality(c.rids) = Cardinality(DOMAIN c.ridtimes)

\* C2: in the catalog as of every commit (the checkpoint commits of the
\* add/update pass and the commit after crawl_once), rids, resources and
\* ridtimes are in one-to-one correspondence.
C2_CommittedOneToOne == OneToOne(db)

\* A checkpoint commit inside the add/update pass has committed resources
\* that the catalog did not hold when crawl_once was called.
C2_Witness ==
    /\ pc = "walk"
    /\ i = 1
    /\ db # pre
    /\ Cardinality(db.rids) >= 2

\* C3: once a crawl_once has run (the root still there), a path that was
\* indexed under rid r and no longer exists is not in ridtimes, r is not in
\* rids nor in resources, and no installed index still returns r.
C3_RemovedPathUnindexed ==
    (last \in {"returned", "raised"} /\ Exists(Root)) =>
        \A p \in DOMAIN pre.ridtimes : ~Exists(p) =>
            /\ p \notin DOMAIN cat.ridtimes
            /\ Rid(pre, p) \notin cat.rids
            /\ Rid(pre, p) \notin DOMAIN cat.resources
            /\ \A n \in DOMAIN cat.indices : Rid(pre, p) \notin IndexHeld(n, cat.indices[n])

\* The paths of ridtimes whose mtime on disk differed when crawl_once was called.
Touched == { p \in DOMAIN pre.ridtimes : Exists(p) /\ fs[p] # pre.ridtimes[p][2] }

\* C4: when a crawl_once has returned, a path that was in ridtimes with
\* another mtime than on disk is in ridtimes under the same rid with the new
\* mtime, resources[rid] is the record rebuilt from the file, and the rid is
\* one of rids, which has not changed if the mtimes were the only change.
C4_ReindexKeepsRid ==
    last = "returned" =>
        \A p \in Touched :
            /\ p \in DOMAIN cat.ridtimes
            /\ cat.ridtimes[p] = <<Rid(pre, p), fs[p]>>
            /\ Rid(pre, p) \in DOMAIN cat.resources
            /\ cat.resources[Rid(pre, p)] = Resource(p)
            /\ Rid(pre, p) \in cat.rids
            /\ (DOMAIN pre.ridtimes = Wanted => cat.rids = pre.rids)

\* A crawl_once has returned that found a changed mtime and re-taught the
\* installed indices.
C4_Witness ==
    /\ last = "returned"
    /\ Touched # {}
    /\ DOMAIN pre.ridtimes = Wanted
    /\ DOMAIN cat.indices # {}
    /\ issued

\* Every path of ridtimes exists with its stored mtime, and no other path
\* that is not ignored exists under the root.
Quiet ==
    /\ DOMAIN pre.ridtimes = Wanted
    /\ \A p \in DOMAIN pre.ridtimes : fs[p] = pre.ridtimes[p][2]

\* C5: a crawl_once called when nothing has changed on disk leaves ridtimes,
\* resources, rids and every installed index as they were, and calls neither
\* learn nor forget.
C5_QuietCrawlChangesNothing ==
    (last # "none" /\ Quiet) => (cat = pre /\ db = pre /\ ~issued)

\* A crawl_once has returned on a catalog with indices installed that holds
\* two resources or more, nothing having changed on disk.
C5_Witness ==
    /\ last = "returned"
    /\ Quiet
    /\ Cardinality(DOMAIN pre.ridtimes) >= 2
    /\ DOMAIN cat.indices # {}

\* C6: the rid _generate_rid returns was neither given to a resource that has
\* been forgotten since the process started, nor is it in rids.
C6_RidNeverReused == alloc.made => (~alloc.reused /\ ~alloc.taken)

\* C6 as amended: the rid _generate_rid returns is not in rids.
C6_RidNotTaken == alloc.made => ~alloc.taken

\* _generate_rid has returned a rid after the sequential candidate collided
\* with a rid of rids.
C6_Witness == alloc.made /\ alloc.collided /\ ~alloc.taken

\* C7: every rid _generate_rid returns lies in [0, 2**31).
C7_RidFitsInt == alloc.made => (0 <= alloc.rid /\ alloc.rid < RidSpace)

\* C8: a String.forget(rid) that directly follows learn(rid, v) of a rid the
\* index did not hold returns normally and leaves values, beginnings, middles,
\* endings and rids exactly as they were before the learn.
C8_StringLearnForgetRestores ==
    (op.name = "forget" /\ op.pair)
        => /\ op.exc = "none"
           /\ ix.values = op.before.values
           /\ ix.beginnings = op.before.beginnings
           /\ ix.middles = op.before.middles
           /\ ix.endings = op.before.endings
           /\ ix.rids = op.before.rids

\* C9: an Enumeration.forget(rid), called with the rid only, that directly
\* follows learn(rid, v) of a rid the index did not hold returns normally and
\* leaves values and rids exactly as they were before the learn.
C9_EnumerationLearnForgetRestores ==
    (op.name = "forget" /\ op.pair)
        => /\ op.exc = "none"
           /\ ix.values = op.before.values
           /\ ix.rids = op.before.rids

\* C10: a Path.forget(rid) that directly follows learn(rid, p), p an absolute
\* path, of a rid the index did not hold returns normally and leaves path2rid, rid2path, parts,
\* levels, rids and the substring maps exactly as they were before the learn.
C10_PathLearnForgetRestores ==
    (op.name = "forget" /\ op.pair /\ Len(op.value) > 0 /\ op.value[1] = Sep)
        => /\ op.exc = "none"
           /\ ix.path2rid = op.before.path2rid
           /\ ix.rid2path = op.before.rid2path
           /\ ix.parts = op.before.parts
           /\ ix.levels = op.before.levels
           /\ ix.rids = op.before.rids
           /\ ix.values = op.before.values
           /\ ix.beginnings = op.before.beginnings
           /\ ix.middles = op.before.middles
           /\ ix.endings = op.before.endings

(***************************************************************************)
(* Claims about the searches of the indices.                               *)
(***************************************************************************)
\* C11: once String.learn(rid, v) has returned, and whatever is learned or
\* forgotten for other rids afterwards, is_(v) contains rid, startswith(s)
\* contains rid for every non-empty prefix s of v, endswith(s) for every
\* non-empty suffix and contains(s) for every non-empty substring.
C11_StringSearchesFindLearned ==
    \A q \in learned :
        /\ q[1] \in String_is(ix, q[2])
        /\ \A s \in Prefixes(q[2]) : q[1] \in String_startswith(ix, s)
        /\ \A s \in Suffixes(q[2]) : q[1] \in String_endswith(ix, s)
        /\ \A s \in Substrings(q[2]) : q[1] \in String_contains(ix, s)

\* A two-character value with a capital was learned by a case-insensitive
\* index, and the last call was a forget of another rid that the index held.
C11_Witness ==
    /\ ~ix.case_sensitive
    /\ \E q \in learned :
        /\ Len(q[2]) = 2 /\ q[2][1] = "A"
        /\ op.name = "forget" /\ op.rid # q[1] /\ op.exc # "KeyError"

\* C12: Enumeration.learn(rid, v) with v permitted returns and is_(v) contains
\* rid; with a missing value on an index that has a default d it returns and
\* is_(d) contains rid; with a missing value and no default, or with a value
\* that is not permitted, it fails with ValueError (BadValue).
C12_EnumerationLearnDefaults ==
    op.name = "learn" =>
        IF op.value \in ix.allowed
        THEN op.exc = "none" /\ op.rid \in Enumeration_is(ix, op.value)
        ELSE IF op.value = NoneValue /\ ix.default # NoDefault
        THEN op.exc = "none" /\ op.rid \in Enumeration_is(ix, ix.default)
        ELSE op.exc = "ValueError"

\* The path a Path index stores for a learned value: lowercased by a
\* case-insensitive index, without trailing separators.
StoredPath(st, v) == RStrip(IF st.case_sensitive THEN v ELSE Lower(v))

\* The path a search argument without limits names: '/' is the empty path.
ArgPath(st, a) ==
    IF a = <<Sep>> THEN << >> ELSE IF st.case_sensitive THEN a ELSE Lower(a)

\* x is p or lies beneath p.
IsBeneath(x, p) ==
    \/ x = p
    \/ Len(x) > Len(p) /\ SubSeq(x, 1, Len(p)) = p /\ x[Len(p) + 1] = Sep

\* The index holds what the learns that returned have stored, each rid
\* learned with one path, and nothing else.
HoldsLearned(st) ==
    /\ \A q \in learned : Len(q[2]) > 0 /\ q[2][1] = Sep
    /\ DOMAIN st.rid2path = { q[1] : q \in learned }
    /\ { <<st.path2rid[k], k>> : k \in DOMAIN st.path2rid }
           = { <<q[1], StoredPath(st, q[2])>> : q \in learned }
    /\ \A q \in learned :
           /\ { k \in DOMAIN st.parts : q[1] \in st.parts[k] } = Tokens(Split(q[2]))
           /\ { l \in DOMAIN st.levels : q[1] \in st.levels[l] } = { Len(Split(q[2])) - 1 }

\* The rids of the learned paths that are p or lie beneath p, for an indexed
\* path p; nothing for a path that is not indexed.
Subtree(st, p) ==
    IF \A q \in learned : StoredPath(st, q[2]) # p THEN {}
    ELSE { q[1] : q \in { x \in learned : IsBeneath(StoredPath(st, x[2]), p) } }

\* C13: below(p) without limits returns exactly the rids of the learned
\* paths that are p or lie beneath p when p is indexed, and the empty set
\* when p is not indexed.
C13_BelowIsSubtree ==
    (op.name = "below" /\ op.value \in SearchPaths /\ HoldsLearned(ix)) =>
        /\ op.exc = "none"
        /\ ~op.none
        /\ op.result = Subtree(ix, ArgPath(ix, op.value))

\* What a limits specification asks for, as the limits are specified: the
\* upper and the lower limit (None when left out), or not valid.
Window(l) ==
    CASE l = <<"0", ":", "1">> -> [valid |-> TRUE, upper |-> <<0>>, lower |-> <<1>>]
      [] l = <<"0", ":", "2">> -> [valid |-> TRUE, upper |-> <<0>>, lower |-> <<2>>]
      [] l = <<"0", ":", "3">> -> [valid |-> TRUE, upper |-> <<0>>, lower |-> <<3>>]
      [] l = <<"1", ":">> -> [valid |-> TRUE, upper |-> <<1>>, lower |-> None]
      [] l = <<"1", ":", "2">> -> [valid |-> TRUE, upper |-> <<1>>, lower |-> <<2>>]
      [] l = <<":", "1">> -> [valid |-> TRUE, upper |-> None, lower |-> <<1>>]
      [] OTHER -> [valid |-> FALSE, upper |-> None, lower |-> None]

\* The level of a stored path: '/a' is at level 1, '/a/b' at level 2.
LevelOf(p) == Len(Split(p)) - 1

\* The rids of the subtree of p whose level k has L + u <= k and k < L + l,
\* L being the level of p.
SubtreeWithin(st, p, w) ==
    { q[1] : q \in { x \in learned :
        /\ IsBeneath(StoredPath(st, x[2]), p)
        /\ w.upper # None => LevelOf(p) + w.upper[1] <= LevelOf(StoredPath(st, x[2]))
        /\ w.lower # None => LevelOf(StoredPath(st, x[2])) < LevelOf(p) + w.lower[1] } }

\* The paths were learned as the index stores them.
LearnedAsStored(st) == \A q \in learned : q[2] = StoredPath(st, q[2])

\* C14: for any learned paths and the indexed path '/a', below('/a u:l')
\* returns exactly the rids of the subtree of '/a' whose level k has
\* L + u <= k (u given) and k < L + l (l given); limits that are not
\* non-negative integers, or with u > l, fail with ValueError (BadArg).
C14_BelowLimits ==
    \A l \in SearchLimits \ { <<"1">>, <<"0", ":", "1", " ", "2">> } :
        (/\ op.name = "below" /\ op.value = <<"/", "a", " ">> \o l
         /\ HoldsLearned(ix) /\ LearnedAsStored(ix)
         /\ \E q \in learned : q[2] = <<"/", "a">>)
        => IF Window(l).valid
           THEN /\ op.exc = "none" /\ ~op.none
                /\ op.result = SubtreeWithin(ix, <<"/", "a">>, Window(l))
           ELSE op.exc = "ValueError"

\* The rids of the learned paths that are p or an ancestor of p.
AncestorChain(st, p) ==
    { q[1] : q \in { x \in learned : IsBeneath(p, StoredPath(st, x[2])) } }

\* C15: above(p) without limits, p an indexed path, returns exactly the rids
\* of the indexed ancestors of p together with the rid of p.
C15_AboveIsAncestorChain ==
    (/\ op.name = "above" /\ op.value \in SearchPaths
     /\ HoldsLearned(ix) /\ LearnedAsStored(ix)
     /\ \E q \in learned : q[2] = op.value)
    => /\ op.exc = "none"
       /\ ~op.none
       /\ op.result = AncestorChain(ix, op.value)


(***************************************************************************)
(* Claims about the Collection, checked under SpecCollection, SpecListing  *)
(* and SpecShell.                                                          *)
(***************************************************************************)
\* The rid-set of a term: all rids, or the rids its search selects.
TermSet(c, term) ==
    IF term.query[1] = None THEN c.rids ELSE TermCall(c, term).rids

\* The fold of a grouping from term n on: AND intersects, NOT subtracts.
RECURSIVE FoldFrom(_, _, _, _)
FoldFrom(c, grouping, n, acc) ==
    IF n > Len(grouping) THEN acc
    ELSE FoldFrom(c, grouping, n + 1,
                  IF grouping[n].operation = "intersection"
                  THEN acc \cap TermSet(c, grouping[n])
                  ELSE acc \ TermSet(c, grouping[n]))

\* The union over the groupings of the fold of each, seeded with its first term.
DNF(c, constraints) ==
    UNION { FoldFrom(c, constraints[k], 2, TermSet(c, constraints[k][1])) :
            k \in 1..Len(constraints) }

\* C16: after any sequence of constructor, AND, NOT and OR calls, the
\* backing set a refresh loads is the union over the groupings of the fold of
\* each grouping's terms, AND folding by intersection and NOT by difference.
C16_BackingSetIsDNF ==
    (cop.name = "refresh" /\ cop.exc = "none") => coll.data = <<DNF(cat, coll.constraints)>>


\* min(limit, |backing set|) when limit is set, |backing set| otherwise.
Size(col) ==
    IF col.limit = None THEN Cardinality(col.data[1])
    ELSE IF col.limit[1] < Cardinality(col.data[1]) THEN col.limit[1]
    ELSE Cardinality(col.data[1])

\* C17: len(collection) is min(limit, |backing set|) when limit is set and
\* |backing set| otherwise, and iterating the collection yields exactly that
\* many resources, whether or not a sort index is set.
C17_IterationYieldsLen ==
    /\ (cop.name = "len" /\ cop.exc = "none") => cop.out = <<Size(coll)>>
    /\ (cop.name = "iter" /\ cop.exc = "none") => Len(cop.out) = Size(coll)

\* The pairs (key, rid) of a sorted view whose rid lies in the backing set.
Kept(view, data) ==
    { p \in (DOMAIN view) \X data : p[2] \in view[p[1]] }

\* The rids of a set of such pairs, walked in key order.
RECURSIVE InKeyOrder(_)
InKeyOrder(pairs) ==
    IF pairs = {} THEN << >>
    ELSE LET first == CHOOSE p \in pairs : \A q \in pairs \ {p} :
                          StrLess(p[1], q[1]) \/ (p[1] = q[1] /\ p[2] < q[2])
         IN <<first[2]>> \o InKeyOrder(pairs \ {first})

\* The first n items of a sequence, all of them when limit is None.
CutOff(seq, limit) ==
    IF limit = None \/ limit[1] >= Len(seq) THEN seq ELSE SubSeq(seq, 1, limit[1])

\* C18: with sort set to an index, iteration yields the rids met by walking
\* the index's sorted view in key order and keeping those in the backing
\* set, cut off after limit resources when limit is set.
C18_SortedIterationOrder ==
    (cop.name = "iter" /\ cop.exc = "none" /\ coll.sort # None)
        => cop.out = CutOff(InKeyOrder(Kept(Sorted(cat, coll.sort[1])[1], coll.data[1])),
                            coll.limit)

\* A limited collection of all three resources has been listed sorted by
\* name: the file c comes first, then the directory d.
C18_Witness ==
    /\ cop.name = "iter"
    /\ cop.exc = "none"
    /\ coll.sort = <<"name">>
    /\ coll.limit = <<2>>
    /\ coll.data = <<{0, 1, 2}>>
    /\ cop.out = <<2, 1>>


\* The exceptions the setters of limit and sort raise on purpose, which the
\* shell reports: BadLimit and BadSort.
BadSetting == {"TypeError", "ValueError"}

\* The values tried that denote zero or a negative number.
NotPositive == {IntValue(-1), IntValue(0), StrValue(<<"0">>), StrValue(<<"-", "1">>)}

\* The words that name an installed index with a sorted view: the String,
\* Enumeration and Path indices.
Sortable == { IndexWords[n] : n \in {"name", "kind", "path", "ext"} \cap DOMAIN cat.indices }

\* C20: limit is unset or an integer >= 1, and sort is unset or the name of
\* an installed index with a sorted view; setting limit to zero or a
\* negative number fails with BadLimit, setting sort to an unknown or
\* unsortable index fails with BadSort, and both leave limit and sort alone.
C20_LimitAndSortValid ==
    /\ coll.limit = None \/ coll.limit[1] >= 1
    /\ coll.sort = None \/ IndexWords[coll.sort[1]] \in Sortable
    /\ (cop.name = "limit" /\ cop.arg \in NotPositive)
           => (cop.exc \in BadSetting /\ coll = cop.before)
    /\ (cop.name = "sort" /\ cop.arg.kind = "str" /\ cop.arg.s \notin Sortable)
           => (cop.exc \in BadSetting /\ coll = cop.before)

\* A collection limited to one resource and sorted by name has refused the
\* limit 0.
C20_Witness ==
    /\ cop.name = "limit"
    /\ cop.arg = IntValue(0)
    /\ cop.exc = "ValueError"
    /\ coll.limit = <<1>>
    /\ coll.sort = <<"name">>


\* The constraints a composition step has to refuse: an unknown index, an
\* unknown search, no search at all, a malformed search argument.
Bad == Rejected \cup {BelowMalformed}

\* The shell commands that compose the query.
Composing == {"do_AND", "do_NOT", "do_OR"}

\* C19: a composition step with an unknown index, an unknown search or a
\* malformed search argument fails, and after a failed step the constraints,
\* the limit and the sort of the collection are what they were before it, and
\* the collection can still be evaluated.
C19_FailedStepChangesNothing ==
    /\ (cop.name \in Composing /\ cop.arg \in Bad) => cop.exc \in BadSetting
    /\ (cop.name \in Composing /\ cop.exc \in BadSetting /\ cop.before.made)
           => /\ coll.constraints = cop.before.constraints
              /\ coll.limit = cop.before.limit
              /\ coll.sort = cop.before.sort
              /\ Refresh(cat, coll).exc = "none"


\* The first term of the grouping is a search that yields no result (None).
SeededByNone(c, grouping) ==
    /\ grouping[1].query[1] # None
    /\ TermCall(c, grouping[1]).exc = "none"
    /\ TermCall(c, grouping[1]).none

\* C30: a term whose search yields no result counts as the empty set: when
\* every grouping of a collection is seeded by such a term, whatever AND and
\* NOT terms follow, a refresh that succeeds loads the empty backing set.
C30_NoneSeedContributesNothing ==
    (/\ cop.name = "refresh"
     /\ cop.exc = "none"
     /\ \A k \in 1..Len(coll.constraints) : SeededByNone(cat, coll.constraints[k]))
        => coll.data = <<{}>>


(***************************************************************************)
(* Claims about crawl_once and the crawler loop.                           *)
(***************************************************************************)
\* C27: within one crawl_once every add/update (learn, write to ridtimes,
\* resources and rids) happens before any unindex: once the unindex pass has
\* found a removed path, no _add_update gets past os.stat in that call.
C27_AddBeforeUnindex == order # "mixed"

\* A crawl_once that re-indexed or added a path and then unindexed another.
C27_Witness == order = "add,unindex" /\ last = "returned"


\* C29: when crawl_once raises, its caller (Catalog.crawl, the CLI's
\* do_crawl) aborts the transaction: the step that raises leaves the
\* committed catalog as the last commit made it, and the catalog the
\* connection shows is that committed one, with none of the later changes.
C29_RaiseRestoresLastCommit ==
    [][(last' = "raised" /\ pc' = "idle") => (db' = db /\ cat' = db)]_vars

\* A crawl_once that had added or re-indexed a path raised, and the catalog
\* is as it was when the call was made.
C29_Witness ==
    /\ last = "raised"
    /\ pc = "idle"
    /\ order = "add"
    /\ cat = pre


\* C22: a stat failure during the add/update pass is reported and the path
\* skipped, the root included: a crawl_once called on a catalog without
\* indices that holds the root, when the root has gone from the disk,
\* returns (having gone on to the remaining paths and the unindex pass).
C22_StatFailureIsSkipped ==
    (/\ pc = "idle"
     /\ last # "none"
     /\ ~Exists(Root)
     /\ Root \in DOMAIN pre.ridtimes
     /\ DOMAIN pre.indices = {})
        => last = "returned"


\* C21: when learn rejects a value (ValueError) during a crawl_once the
\* crawler loop runs, the transaction is aborted and the loop keeps running:
\* such an exception never ends the crawler thread.
C21_LoopSurvivesBadValue == ~(crawler.at = "dead" /\ crawler.exc = "ValueError")


\* The crawler thread has ended: its loop is over, or an exception left it.
Exited == crawler.at \in {"done", "dead"}

C24_QuerySeesCommittedState ==
    crawler.at # "none" => \A thread \in QueryThreads : GetCatalog(thread) = db


\* The index installed under name holds an entry for rid in the catalog c.
Holds(c, name, rid) == rid \in IndexHeld(name, c.indices[name])

\* C25: at every commit, every installed index holds an entry for every rid
\* of rids, unless the resource has no attribute named after the index; that
\* index alone was then skipped (with a warning), and resources and the
\* other indices record the rid.
C25_IndicesCoverRids ==
    \A name \in DOMAIN db.indices : \A rid \in db.rids :
        /\ rid \in DOMAIN db.resources
        /\ Attr(db.resources[rid], name) # Marker => Holds(db, name, rid)

\* A commit holds a directory, which has no attribute ext: the String index
\* under ext has no entry for it, the Enumeration under kind has one.
C25_Witness ==
    /\ "ext" \in DOMAIN db.indices
    /\ \E rid \in db.rids :
           /\ Attr(db.resources[rid], "ext") = Marker
           /\ ~Holds(db, "ext", rid)
           /\ Holds(db, "kind", rid)
    /\ \E rid \in db.rids : Holds(db, "ext", rid)


\* C26: no path that ignore matches is ever indexed, the root included: in
\* every catalog state, as the crawling thread sees it and as committed,
\* ridtimes holds no ignored path.
C26_NoIgnoredPathIndexed ==
    \A p \in DOMAIN cat.ridtimes \cup DOMAIN db.ridtimes : ~Ignore(p)


\* C28: during the add/update pass a checkpoint commit is issued every 20
\* processed entries: with the entry in hand no more than 20 entries (the
\* root counted) await a commit, the count that awaits one is what the
\* commits after entries 0, 20, 40, ... leave, and the unindex pass, which
\* issues no commit, leaves that count as the walk left it.
C28_CheckpointEveryTwenty ==
    pc \in {"walk", "unindex"} =>
        /\ since + 1 <= CommitEvery
        /\ since = IF i = 0 THEN 1 ELSE (i - 1) % CommitEvery

\* The third checkpoint has just been issued, after the entry numbered 40.
C28_Witness == pc = "walk" /\ i = 2 * CommitEvery + 1 /\ since = 0


(***************************************************************************)
(* Further claims about the indices, the Collection and the crawler.       *)
(***************************************************************************)
\* C38: a learn that fails because it rejects the value (TypeError,
\* ValueError) leaves the index as it was before the call.
C38_RejectedLearnChangesNothing ==
    (op.name = "learn" /\ op.exc \in {"TypeError", "ValueError"}) => ix = op.before


\* C31: the crawler thread works on the catalog through a connection of its
\* own: once it is started, the connection whose catalog object it reads and
\* mutates is not the connection of any other thread.
C31_CrawlerHasOwnConnection ==
    crawler.at # "none" =>
        \A thread \in QueryThreads : ConnectionOf("crawler") # ConnectionOf(thread)


\* The result of the search called name on the index st.
Searched(st, name, arg) ==
    IF name = "below" THEN PathBelow(st, arg) ELSE PathAbove(st, arg)

\* The result the last search left in op.
Found == [exc |-> op.exc, none |-> op.none, rids |-> op.result]

\* A case-sensitive index that has learned the one path as it is queried.
Identical(rid, arg) == PathLearn(PathReset(TRUE), rid, arg).st

\* C33: in a case-insensitive Path index that has learned one path, is_,
\* below and above queried with that path in any casing give what a
\* case-sensitive index gives when it has learned the path in the casing of
\* the query.
C33_CaseInsensitiveSearch ==
    \A q \in learned :
        (/\ ~ix.case_sensitive
         /\ learned = {q}
         /\ ix = PathLearn(PathReset(FALSE), q[1], q[2]).st
         /\ op.name \in {"below", "above"}
         /\ op.value \in SearchPaths \ { <<Sep>> }
         /\ Lower(op.value) = Lower(q[2]))
        => /\ Found = Searched(Identical(q[1], op.value), op.name, op.value)
           /\ Path_is(ix, op.value) = Path_is(Identical(q[1], op.value), op.value)


\* The key a String index files a value under.
Key(st, v) == IF st.case_sensitive THEN v ELSE Lower(v)

\* The last call was a learn that returned, for a rid the index held under
\* another value.
Relearned ==
    /\ op.name = "learn" /\ op.exc = "none"
    /\ \E k \in DOMAIN op.before.values :
           op.rid \in op.before.values[k] /\ k # Key(ix, op.value)

\* C34: once a rid is learned again with another value, the String searches
\* return it for its current value only, and it stands under exactly one key
\* of the sorted view (values).
C34_RelearnedOnlyUnderCurrentValue ==
    Relearned =>
        /\ \A arg \in StrInputs :
            /\ op.rid \in String_is(ix, arg) => Key(ix, arg) = Key(ix, op.value)
            /\ op.rid \in String_startswith(ix, arg)
                   => Key(ix, arg) \in Prefixes(Key(ix, op.value))
            /\ op.rid \in String_endswith(ix, arg)
                   => Key(ix, arg) \in Suffixes(Key(ix, op.value))
            /\ op.rid \in String_contains(ix, arg)
                   => Key(ix, arg) \in Substrings(Key(ix, op.value))
        /\ { k \in DOMAIN ix.values : op.rid \in ix.values[k] } = { Key(ix, op.value) }


\* The path is gone from the disk and still in ridtimes, and some installed
\* index holds no entry for its rid.
LacksEntry(p) ==
    /\ ~Exists(p)
    /\ p \in DOMAIN cat.ridtimes
    /\ \E n \in DOMAIN cat.indices : Rid(cat, p) \notin IndexHeld(n, cat.indices[n])

\* C35: while the crawler is not told to stop, a removed path of whose rid
\* some installed index holds no entry is eventually out of ridtimes.
C35_RemovedPathEventuallyUnindexed ==
    (\E p \in AllPaths : LacksEntry(p))
        ~> (stop = "set" \/ \A p \in DOMAIN cat.ridtimes : Exists(p))


\* C36: no call other than an iteration or a length loads the data of a
\* Collection, and an iteration or a length that returns leaves the data
\* that a refresh with the constraints added so far computes.
C36_ReadReflectsConstraints ==
    /\ (coll.made /\ cop.name \notin {"len", "iter"}) => coll.data = cop.before.data
    /\ (cop.name \in {"len", "iter"} /\ cop.exc = "none")
           => /\ Refresh(cat, coll).exc = "none"
              /\ coll.data = Refresh(cat, coll).st.data


\* C32: a step that makes, constrains, evaluates, iterates or measures a
\* Collection leaves the catalog (ridtimes, resources, rids and the indices
\* with all they hold) as it was, in the working state and as committed; it
\* writes the Collection alone.
C32_CollectionLeavesCatalog ==
    [][(coll' # coll \/ cop' # cop) => (cat' = cat /\ db' = db)]_vars

\* A Collection narrowed by a search was iterated after a crawl_once had
\* added a resource to the catalog.
C32_Witness ==
    /\ cop.name = "iter" /\ cop.exc = "none"
    /\ NTerms(coll.constraints) = 2
    /\ last = "returned"
    /\ Cardinality(cat.rids) = 3
    /\ Len(cop.out) < 3


\* C37: whatever calls of start_crawling and stop_crawling are made, at most
\* one crawler thread is executing crawl_once at any time.
C37_OneThreadInCrawlOnce == Cardinality(InCrawlOnce) <= 1

====
